---------------------------- MODULE Spec2Model ----------------------------
(***************************************************************************)
(* db-seeder: a model of Seeder::run (src/src/seeder.rs) and of the parts  *)
(* of EntityGenerator::generate_entity (src/src/entity_generator.rs) it    *)
(* drives.  The run sorts the plan's entities along the schema's foreign   *)
(* keys, then seeds them one by one, each batch in one transaction, and    *)
(* keeps the primary keys a batch returned for the fk fields of the        *)
(* entities that follow.                                                   *)
(***************************************************************************)
EXTENDS Naturals, Integers, Sequences, FiniteSets, TLC

VARIABLES
    schema,          \* DbSchema: tables (primary key per table), foreign_keys
    plan,            \* ArchitecturalPlan.entity_templates
    plan_data_pools, \* ArchitecturalPlan.data_pools: the names of the pools
    plan_tasks,      \* config.plan: the task list
    pc,              \* where run stands: start, sort, loop, rows, done
    result,          \* what run returned ("none" while it runs)
    error_arg,       \* what the returned error carries ("" if nothing)
    requests,        \* number of requests sent to Gemini
    attempt,         \* get_pool_data: failed attempts for the pool at hand
    data_pools,      \* run's data_pools: pool name -> values
    sorted_entities, \* toposort's order
    idx,             \* position of the for loop of run in sorted_entities
    generated_pks,   \* run's generated_pks: table -> keys
    open_tx,         \* entities whose transaction is begun and not ended
    tx_rows,         \* rows inserted in the open transaction of seed_table
    entity,          \* seed_table's entity: the values of the row inserted last
    generated_pks_for_this_table, \* seed_table's partial pool
    row_i,           \* rows of the batch done so far (the for loop of seed_table)
    db,              \* committed rows per table (the batch and key of each)
    issued,          \* issued[k]: the entity whose batch got key k
    started,         \* entities seed_table was called for, in call order
    committed,       \* entities whose batch committed, in order
    skipped,         \* entities run passed over for want of a task
    failed,          \* the entity whose batch failed ("" if none)
    tx_begun,        \* number of transactions begun
    inserts,         \* number of INSERT statements executed
    query,           \* the values bound to the placeholders of an INSERT
    selections,      \* run_interactive_mode's selections: the tables picked
    selected_table   \* run_interactive_mode: the table picked last ("-" if none)

vars == <<schema, plan, plan_data_pools, plan_tasks, pc, result, error_arg,
          requests, attempt, data_pools, sorted_entities, idx,
          generated_pks, open_tx, tx_rows, entity, generated_pks_for_this_table,
          row_i, db, issued, started, committed, skipped, failed,
          tx_begun, inserts, query, selections, selected_table>>

----------------------------------------------------------------------------
(* Bounds of the model                                                     *)

MaxRows == 2

(* Universe of the inputs                                                  *)

Tables == {"a", "b", "c"}
NoTable == "-"

EmptyMap == [t \in {} |-> <<>>]

----------------------------------------------------------------------------
(* Sequence helpers                                                        *)

Range(s) == {s[i] : i \in DOMAIN s}

Pos(s, x) == IF x \in Range(s) THEN CHOOSE i \in DOMAIN s : s[i] = x /\ \A j \in 1..(i-1) : s[j] # x
             ELSE 0

Reverse(s) == [i \in 1..Len(s) |-> s[Len(s) + 1 - i]]

Perms(S) == {p \in [1..Cardinality(S) -> S] : \A i, j \in 1..Cardinality(S) : p[i] = p[j] => i = j}

RECURSIVE Dedup(_)
Dedup(s) == IF s = <<>> THEN <<>>
            ELSE LET front == Dedup(SubSeq(s, 1, Len(s) - 1))
                     x == s[Len(s)]
                 IN IF x \in Range(front) THEN front ELSE Append(front, x)

----------------------------------------------------------------------------
(* The plan's dependency graph: Seeder::build_plan_dependency_graph         *)

(* entity_map: target_table -> entity_name, collected into a HashMap from   *)
(* the templates in order, so the last template of a table wins.            *)
entity_map(p) ==
    [t \in {p[i].target_table : i \in DOMAIN p} |->
        LET last == CHOOSE i \in DOMAIN p :
                        /\ p[i].target_table = t
                        /\ \A j \in DOMAIN p : p[j].target_table = t => j <= i
        IN p[last].entity_name]

(* add_edge of a DiGraphMap: an edge already present is not added again.    *)
RECURSIVE graph_edges(_, _)
graph_edges(em, fks) ==
    IF fks = <<>> THEN <<>>
    ELSE LET front == graph_edges(em, SubSeq(fks, 1, Len(fks) - 1))
             fk == fks[Len(fks)]
         IN IF fk.to_table \in DOMAIN em /\ fk.from_table \in DOMAIN em
            THEN LET e == <<em[fk.to_table], em[fk.from_table]>>
                 IN IF e \in Range(front) THEN front ELSE Append(front, e)
            ELSE front

graph_edges_reversed(em, fks) ==
    LET es == graph_edges(em, fks) IN [i \in DOMAIN es |-> <<es[i][2], es[i][1]>>]

no_plan_edges(em, fks) == <<>>

(* The foreign keys become the edges of the graph, parent -> child.         *)
plan_edges(em, fks) == graph_edges(em, fks)

(* The graph: the nodes in the order entity_map.values() yields them (a     *)
(* HashMap's iteration order: values_order is any order of its keys), the   *)
(* edges parent -> child in the order of schema.foreign_keys.               *)
build_plan_dependency_graph(p, fks, values_order) ==
    LET em == entity_map(p)
    IN [nodes |-> Dedup([i \in DOMAIN values_order |-> em[values_order[i]]]),
        edges |-> plan_edges(em, fks)]

Outgoing(g, n) ==
    LET es == SelectSeq(g.edges, LAMBDA e : e[1] = n) IN [i \in DOMAIN es |-> es[i][2]]

Incoming(g, n) ==
    LET es == SelectSeq(g.edges, LAMBDA e : e[2] = n /\ e[1] # n) IN [i \in DOMAIN es |-> es[i][1]]

----------------------------------------------------------------------------
(* petgraph::algo::toposort as run calls it: a depth-first search from the  *)
(* nodes in reverse insertion order that records the finish order, then a   *)
(* pass over the reversed finish order that walks the reversed graph and    *)
(* reports a cycle when a node still has an undiscovered predecessor.       *)

RECURSIVE dfs_finish(_, _, _, _, _)
dfs_finish(g, stack, discovered, finished, finish_stack) ==
    IF stack = <<>>
    THEN [cycle |-> FALSE, discovered |-> discovered, finished |-> finished,
          finish_stack |-> finish_stack]
    ELSE LET nx == stack[Len(stack)]
             succs == Outgoing(g, nx)
         IN IF nx \notin discovered
            THEN IF nx \in Range(succs)
                 THEN [cycle |-> TRUE, discovered |-> discovered,
                       finished |-> finished, finish_stack |-> finish_stack]
                 ELSE dfs_finish(g,
                                 stack \o SelectSeq(succs, LAMBDA s : s \notin discovered /\ s # nx),
                                 discovered \cup {nx}, finished, finish_stack)
            ELSE dfs_finish(g, SubSeq(stack, 1, Len(stack) - 1), discovered,
                            finished \cup {nx},
                            IF nx \in finished THEN finish_stack
                            ELSE Append(finish_stack, nx))

RECURSIVE dfs_roots(_, _, _, _, _)
dfs_roots(g, roots, discovered, finished, finish_stack) ==
    IF roots = <<>>
    THEN [cycle |-> FALSE, finish_stack |-> finish_stack]
    ELSE LET i == roots[1]
         IN IF i \in discovered
            THEN dfs_roots(g, Tail(roots), discovered, finished, finish_stack)
            ELSE LET r == dfs_finish(g, <<i>>, discovered, finished, finish_stack)
                 IN IF r.cycle THEN [cycle |-> TRUE, finish_stack |-> <<>>]
                    ELSE dfs_roots(g, Tail(roots), r.discovered, r.finished,
                                   r.finish_stack)

(* Dfs::next on the reversed graph, repeated until the stack is empty:      *)
(* the number of nodes it returns and the nodes discovered.                 *)
RECURSIVE dfs_reversed(_, _, _, _)
dfs_reversed(g, stack, discovered, returned) ==
    IF stack = <<>> THEN [returned |-> returned, discovered |-> discovered]
    ELSE LET node == stack[Len(stack)]
             rest == SubSeq(stack, 1, Len(stack) - 1)
         IN IF node \notin discovered
            THEN dfs_reversed(g,
                              rest \o SelectSeq(Incoming(g, node),
                                                LAMBDA s : s \notin discovered /\ s # node),
                              discovered \cup {node}, returned + 1)
            ELSE dfs_reversed(g, rest, discovered, returned)

RECURSIVE check_order(_, _, _)
check_order(g, order, discovered) ==
    IF order = <<>> THEN TRUE
    ELSE LET r == dfs_reversed(g, <<order[1]>>, discovered, 0)
         IN IF r.returned > 1 THEN FALSE
            ELSE check_order(g, Tail(order), r.discovered)

toposort(g) ==
    LET first == dfs_roots(g, Reverse(g.nodes), {}, {}, <<>>)
        order == Reverse(first.finish_stack)
    IN IF first.cycle THEN [ok |-> FALSE, order |-> <<>>]
       ELSE IF check_order(g, order, {}) THEN [ok |-> TRUE, order |-> order]
       ELSE [ok |-> FALSE, order |-> <<>>]

----------------------------------------------------------------------------
(* The inputs of a run: the schema read at startup, the plan the analyzer   *)
(* returns, and the task list of the configuration.                         *)

TableSeq == <<"a", "b", "c">>

(* "x" is a table name the plan may use that the schema does not hold.      *)
GhostTable == "x"

(* The foreign keys a schema may hold, child (from_table) to parent         *)
(* (to_table): they allow chains, a diamond, cycles of two and three        *)
(* tables and a table that references itself.                               *)
CandidateForeignKeys ==
    << [from_table |-> "b", to_table |-> "a"], [from_table |-> "a", to_table |-> "b"],
       [from_table |-> "c", to_table |-> "b"], [from_table |-> "c", to_table |-> "a"],
       [from_table |-> "a", to_table |-> "a"], [from_table |-> "a", to_table |-> "c"] >>

RECURSIVE PickSeq(_, _, _)
PickSeq(s, S, i) ==
    IF i > Len(s) THEN <<>>
    ELSE (IF i \in S THEN <<s[i]>> ELSE <<>>) \o PickSeq(s, S, i + 1)

Targets(shape) == {shape[i].target_table : i \in DOMAIN shape}

(* schema.foreign_keys for a plan on these tables.  With a single table in  *)
(* the plan only the foreign keys of that table are varied: those of the    *)
(* other tables do not reach the run.                                       *)
ForeignKeyLists(shape) ==
    {PickSeq(CandidateForeignKeys, S, 1) :
        S \in {T \in SUBSET (DOMAIN CandidateForeignKeys) :
                  Cardinality(Targets(shape) \cap Tables) = 1 =>
                      \A i \in T : CandidateForeignKeys[i].from_table \in Targets(shape)}}

Ent(n, t) == [entity_name |-> n, target_table |-> t]

(* Which entity is mapped to which table, in plan order: one entity, two    *)
(* and three on tables of their own, two entities on one table, a table of  *)
(* the plan unknown to the schema, and an entity name used twice.           *)
PlanShapes ==
    { << Ent("E1", "a") >>,
      << Ent("E1", "a"), Ent("E2", "b") >>,
      << Ent("E1", "a"), Ent("E2", "a") >>,
      << Ent("E1", "a"), Ent("E2", GhostTable) >>,
      << Ent("E1", "a"), Ent("E2", "b"), Ent("E3", "c") >>,
      << Ent("E1", "a"), Ent("E2", "b"), Ent("E3", "b") >>,
      << Ent("E1", "a"), Ent("E2", "a"), Ent("E1", "b") >> }

Field(column_name, generator, params) ==
    [column_name |-> column_name, generator |-> generator, references |-> NoTable,
     params |-> params]

FkField(t) == [column_name |-> t, generator |-> "fk", references |-> t, params |-> EmptyMap]

(* The field an entity may hold besides the fk fields that mirror the       *)
(* schema's foreign keys: none, a generator of no known kind, a generator   *)
(* without dependencies, a value from a data pool, or an fk field no        *)
(* foreign key of the schema backs.                                         *)
PoolField == Field("v", "from_pool", "pool_name" :> "p")

ExtraFields ==
    { <<>>,
      << Field("v", "bogus", EmptyMap) >>,
      << Field("v", "words", EmptyMap) >>,
      << PoolField >> }
    \cup { << FkField(t) >> : t \in Tables }

(* The data pools a plan may ask for.                                       *)
PoolSets == {{}, {"p"}, {"p", "q"}}

RECURSIVE FkFieldsOf(_, _)
FkFieldsOf(t, fks) ==
    IF fks = <<>> THEN <<>>
    ELSE (IF fks[1].from_table = t THEN << FkField(fks[1].to_table) >> ELSE <<>>)
         \o FkFieldsOf(t, Tail(fks))

MakePlan(shape, fks, extra) ==
    [i \in DOMAIN shape |->
        [entity_name |-> shape[i].entity_name,
         target_table |-> shape[i].target_table,
         fields |-> FkFieldsOf(shape[i].target_table, fks)
                    \o (IF i = Len(shape) THEN extra ELSE <<>>)]]

(* At most one table departs from the usual case (a text primary key on the *)
(* column id and a task of MaxRows rows): it has no task, a task of 0 rows, *)
(* no primary key, a primary key over two columns, or a primary key of a    *)
(* type the read-back does not support; or the task list names no table of  *)
(* the schema at all.                                                       *)
Deviations == {"none", "unknown", "notask", "zero", "nopk", "composite", "badpk"}

(* The columns of the table's primary key in the database.                  *)
pk_columns(t, dt, dev) ==
    IF t = dt /\ dev = "nopk" THEN {}
    ELSE IF t = dt /\ dev = "composite" THEN {"id", "id2"}
    ELSE {"id"}

(* DbClient::fetch_primary_key: the query gives one row for each column of  *)
(* the primary key, in no stated order, and fetch_optional keeps the first  *)
(* row, if there is one.  The results the call can give ("" for None).      *)
fetch_primary_key(columns) == IF columns = {} THEN {""} ELSE columns

(* The column a table has for a reference to itself is nullable, or NOT     *)
(* NULL without a default, or NOT NULL with one; the other columns the plan *)
(* fills (one for each table referenced, and v) are nullable text columns.  *)
ColumnKinds == {"nullable", "not null", "not null default"}

ColumnSchema(data_type, is_nullable, column_default) ==
    [data_type |-> data_type, is_nullable |-> is_nullable,
     column_default |-> column_default]

MakeColumns(t, kind) ==
    [c \in Tables \cup {"v"} |->
        IF c = t
        THEN ColumnSchema("text", kind = "nullable",
                          IF kind = "not null default" THEN "0" ELSE "")
        ELSE ColumnSchema("text", TRUE, "")]

MakeTables(dt, dev, pk, kind) ==
    [t \in Tables |->
        [columns |-> MakeColumns(t, kind),
         pk_columns |-> pk_columns(t, dt, dev),
         primary_key_column |-> IF t = dt THEN pk ELSE "id",
         pk_data_type |-> IF t = dt /\ dev = "badpk" THEN "numeric" ELSE "text"]]

RECURSIVE MakeTasks(_, _, _)
MakeTasks(names, dt, dev) ==
    IF names = <<>> THEN <<>>
    ELSE (IF (names[1] = dt /\ dev = "notask") \/ (dev = "unknown" /\ names[1] # GhostTable)
          THEN <<>>
          ELSE << [table |-> names[1],
                   rows |-> IF names[1] = dt /\ dev = "zero" THEN 0 ELSE MaxRows] >>)
         \o MakeTasks(Tail(names), dt, dev)

Init ==
    /\ \E shape \in PlanShapes, extra \in ExtraFields, pools \in PoolSets,
          dt \in Tables \cup {NoTable}, dev \in Deviations :
       \E fks \in ForeignKeyLists(shape), pk \in fetch_primary_key(pk_columns(dt, dt, dev)),
          kind \in ColumnKinds :
          /\ (kind # "nullable" =>
                 /\ dev = "none" /\ pools = {}
                 /\ extra = <<FkField(shape[Len(shape)].target_table)>>)
          /\ (pools # {} => dev = "none" /\ extra \in {<<>>, <<PoolField>>} /\ Len(fks) <= 1)
          /\ plan_data_pools = pools
          /\ (dt = NoTable <=> dev \in {"none", "unknown"})
          /\ dt \in Targets(shape) \cup {NoTable}
          /\ (dev = "unknown" => fks = <<>> /\ extra = <<>>)
          /\ (extra # <<>> /\ extra[1].generator # "fk" => dev = "none")
          /\ schema = [tables |-> MakeTables(dt, dev, pk, kind), foreign_keys |-> fks]
          /\ plan = MakePlan(shape, fks, extra)
          /\ plan_tasks = MakeTasks(TableSeq \o <<GhostTable>>, dt, dev)
    /\ pc = "start"
    /\ result = "none"
    /\ error_arg = ""
    /\ requests = 0
    /\ attempt = 0
    /\ data_pools = EmptyMap
    /\ sorted_entities = <<>>
    /\ idx = 0
    /\ generated_pks = EmptyMap
    /\ open_tx = {}
    /\ tx_rows = <<>>
    /\ entity = <<>>
    /\ generated_pks_for_this_table = <<>>
    /\ row_i = 0
    /\ db = [t \in Tables |-> <<>>]
    /\ issued = <<>>
    /\ started = <<>>
    /\ committed = <<>>
    /\ skipped = <<>>
    /\ failed = ""
    /\ tx_begun = 0
    /\ inserts = 0
    /\ query = <<>>
    /\ selections = {}
    /\ selected_table = NoTable

----------------------------------------------------------------------------
(* EntityGenerator::generate_entity.  A field is [column_name, generator,    *)
(* references, params]: references is params["references"] (NoTable when    *)
(* the plan gave none) and params holds the other parameters the plan gave. *)
(* A value is a tuple that starts with its kind; a key drawn by an fk field *)
(* is the key itself.  Every random draw (rng, fake) is a choice, so a      *)
(* field gives a set of results and generate_entity a set of outcomes.      *)

(* field.params.get(name)...unwrap_or(default)                              *)
param(field, name, default) ==
    IF name \in DOMAIN field.params THEN field.params[name] ELSE default

Value(v) == [err |-> "", arg |-> "", null |-> FALSE, value |-> v]

NullValue == [err |-> "", arg |-> "", null |-> TRUE, value |-> <<"null">>]

Failure(err, arg) == [err |-> err, arg |-> arg, null |-> FALSE, value |-> <<"none">>]

(* rng.gen_range and the ranges of fake panic on an empty range.            *)
Panic == Failure("panic", "")

(* A text is a sequence of tokens: <<"lit", text>> for text without         *)
(* placeholders, <<"key", column>> for "{column}", <<"random_digits", w>>   *)
(* for "{random_digits:w}", and the value itself for a text known only by   *)
(* its kind and size (a hash, words, a sentence, a date).                   *)

(* The tokens of a string of a data pool.                                   *)
parse_placeholders(str) ==
    CASE str = "" -> <<>>
      [] str = "{age}" -> << <<"key", "age">> >>
      [] OTHER -> << <<"lit", str>> >>

(* val_str: the text of a string is the string, that of a number its        *)
(* decimal text, that of any other value is empty.                          *)
val_str(v) ==
    CASE v[1] = "s" -> parse_placeholders(v[2])
      [] v[1] = "n" -> << <<"lit", ToString(v[2])>> >>
      [] v[1] \in {"hash", "words"} -> IF v[2] = 0 THEN <<>> ELSE <<v>>
      [] v[1] = "template" -> v[2]
      [] v[1] \in {"sentence", "date"} -> <<v>>
      [] OTHER -> <<>>

val_str_is_empty(v) == val_str(v) = <<>>

(* result.replace("{key}", val_str): every occurrence, left to right; the   *)
(* text put in is not searched again.                                       *)
RECURSIVE replace(_, _, _)
replace(str, key, text) ==
    IF str = <<>> THEN <<>>
    ELSE (IF str[1] = <<"key", key>> THEN text ELSE <<str[1]>>)
         \o replace(Tail(str), key, text)

(* for (key, val) in &entity: the replacements are made one after another,  *)
(* in the order the HashMap yields the columns of the row; a column whose   *)
(* text is empty is passed over.                                            *)
RECURSIVE substitute(_, _, _)
substitute(str, order, row) ==
    IF order = <<>> THEN str
    ELSE substitute(IF val_str_is_empty(row[order[1]]) THEN str
                    ELSE replace(str, order[1], val_str(row[order[1]])),
                    Tail(order), row)

(* {random_digits:4} becomes four digits; another width stays as it is.     *)
random_digits(str) ==
    [i \in DOMAIN str |->
        IF str[i] = <<"random_digits", 4>> THEN <<"digits", 4>> ELSE str[i]]

template_dropping_unknown(format, row) ==
    {random_digits(substitute(SelectSeq(format, LAMBDA tok : tok[1] = "key" => tok[2] \in DOMAIN row),
                              order, row)) : order \in Perms(DOMAIN row)}

(* The template generator: the results it can give, one for each order the  *)
(* HashMap can yield the columns in.                                        *)
template(format, row) ==
    {random_digits(substitute(format, order, row)) : order \in Perms(DOMAIN row)}

(* Time is counted in seconds, with SecondsPerDay seconds to a day: the    *)
(* first is 00:00:00 and the last 23:59:59.                                 *)
SecondsPerDay == 3

Dates == <<"2020-01-01", "2022-01-01", "2024-01-01">>

(* Utc::now(), an instant in the course of a day after all of Dates.        *)
Now == Len(Dates) * SecondsPerDay + 1

(* NaiveDateTime::parse_from_str of "<date> <time>" as a timestamp; what    *)
(* does not parse becomes Utc::now().                                       *)
parse_date(str, time) ==
    IF \E d \in DOMAIN Dates : Dates[d] = str
    THEN ((CHOOSE d \in DOMAIN Dates : Dates[d] = str) - 1) * SecondsPerDay
         + (IF time = "00:00:00" THEN 0 ELSE SecondsPerDay - 1)
    ELSE Now

(* The parameters a generator reads, and those it cannot do without         *)
(* (.ok_or_else(..)?); the others have a default (.unwrap_or(..)).          *)
known_params(generator) ==
    CASE generator = "pk_hash" -> {"length"}
      [] generator = "from_pool" -> {"pool_name"}
      [] generator = "template" -> {"format"}
      [] generator = "fk" -> {"references"}
      [] generator \in {"words", "number_range", "sentence"} -> {"min", "max"}
      [] generator = "boolean" -> {"true_chance"}
      [] generator = "datetime_range" -> {"start", "end"}
      [] OTHER -> {}

required_all(generator) == known_params(generator)

required(generator) == known_params(generator) \cap {"pool_name", "format", "references"}

missing(field, name) ==
    IF name = "references" THEN field.references = NoTable
    ELSE name \notin DOMAIN field.params

null_is_error == Failure("DependencyNotFound", "")

(* json!(Value::Null): what an fk field yields for an empty pool.           *)
null == NullValue

unknown_generator_skipped(field) == {NullValue}

(* The last arm of the match: a generator of no known kind.                 *)
unknown_generator(field) == {Failure("UnknownGenerator", field.generator)}

(* The match on field.generator: the results of one field.                  *)
field_value(field, pools, all_pks, row) ==
    IF \E name \in required(field.generator) : missing(field, name)
    THEN {Failure("Custom", CHOOSE name \in required(field.generator) : missing(field, name))}
    ELSE
    CASE field.generator = "pk_hash" ->
             {Value(<<"hash", param(field, "length", 20)>>)}
      [] field.generator = "from_pool" ->
             IF field.params["pool_name"] \notin DOMAIN pools
             THEN {Failure("Custom", "pool not found")}
             ELSE LET pool == pools[field.params["pool_name"]]
                  IN IF pool = <<>> THEN {Panic}
                     ELSE {Value(<<"s", pool[i]>>) : i \in DOMAIN pool}
      [] field.generator = "template" ->
             {Value(<<"template", t>>) : t \in template(field.params["format"], row)}
      [] field.generator = "fk" ->
             IF field.references \in DOMAIN all_pks
             THEN LET pk_pool == all_pks[field.references]
                  IN IF pk_pool = <<>> THEN {null}
                     ELSE {Value(pk_pool[i]) : i \in DOMAIN pk_pool}
             ELSE {Failure("DependencyNotFound", field.references)}
      [] field.generator = "words" ->
             LET min == param(field, "min", 2)
                 max == param(field, "max", 5)
             IN IF min >= max THEN {Panic}
                ELSE {Value(<<"words", n>>) : n \in min..(max - 1)}
      [] field.generator = "number_range" ->
             LET min == param(field, "min", 0)
                 max == param(field, "max", 100)
             IN IF min > max THEN {Panic}
                ELSE {Value(<<"n", n>>) : n \in min..max}
      [] field.generator = "boolean" ->
             LET true_chance == param(field, "true_chance", 50)
             IN IF true_chance < 0 \/ true_chance > 100 THEN {Panic}
                ELSE {Value(<<"b", b>>) :
                         b \in {x \in BOOLEAN : (x => true_chance > 0)
                                                /\ (~x => true_chance < 100)}}
      [] field.generator = "sentence" ->
             LET min == param(field, "min", 5)
                 max == param(field, "max", 10)
             IN IF min >= max THEN {Panic}
                ELSE {Value(<<"sentence", n>>) : n \in min..(max - 1)}
      [] field.generator = "datetime_range" ->
             LET start_ts == parse_date(param(field, "start", "2020-01-01"), "00:00:00")
                 end_ts == parse_date(param(field, "end", "2024-01-01"), "23:59:59")
             IN IF start_ts >= end_ts THEN {Value(<<"date", start_ts>>)}
                ELSE {Value(<<"date", d>>) : d \in start_ts..end_ts}
      [] OTHER -> unknown_generator(field)

(* The loop over the fields, in declared order: the first field that fails  *)
(* ends it with the error and no row; a null is not put into the row.       *)
RECURSIVE generate_entity(_, _, _, _)
generate_entity(fields, pools, all_pks, row) ==
    IF fields = <<>> THEN {[err |-> "", arg |-> "", entity |-> row]}
    ELSE UNION {IF r.err # ""
                THEN {[err |-> r.err, arg |-> r.arg, entity |-> <<>>]}
                ELSE generate_entity(Tail(fields), pools, all_pks,
                                     IF r.null THEN row
                                     ELSE (fields[1].column_name :> r.value) @@ row) :
                   r \in field_value(fields[1], pools, all_pks, row)}

----------------------------------------------------------------------------
(* Seeder::run                                                              *)

entity_name_reversed == sorted_entities[Len(sorted_entities) + 1 - idx]

(* The entity the for loop of run stands at.                                *)
entity_name == sorted_entities[idx]

(* architectural_plan.entity_templates.iter().find(...): the first template *)
(* of that name.                                                            *)
template_of(name) ==
    plan[CHOOSE i \in DOMAIN plan :
            /\ plan[i].entity_name = name
            /\ \A j \in 1..(i - 1) : plan[j].entity_name # name]

has_task(table) == \E i \in DOMAIN plan_tasks : plan_tasks[i].table = table

(* plan_tasks.iter().find(...): the first task of that table.               *)
task_of(table) ==
    plan_tasks[CHOOSE i \in DOMAIN plan_tasks :
                  /\ plan_tasks[i].table = table
                  /\ \A j \in 1..(i - 1) : plan_tasks[j].table # table]

entity_template == template_of(entity_name)

task == task_of(entity_template.target_table)

(* The steps of run before the pools are filled.  Without GEMINI_API_KEY or *)
(* without the plan section run fails before anything is requested; with no *)
(* task table known to the schema it returns Ok at once; else the plan is   *)
(* requested from Gemini, once, and the request or the parse of its answer  *)
(* can fail.  With no data pools in the plan the sort is next.              *)
Start ==
    /\ pc = "start"
    /\ UNCHANGED <<query, selections, selected_table>>
    /\ \/ /\ pc' = "done" /\ result' = "Custom" /\ error_arg' = "config"
          /\ requests' = requests
       \/ /\ \A i \in DOMAIN plan_tasks : plan_tasks[i].table \notin DOMAIN schema.tables
          /\ pc' = "done" /\ result' = "Ok" /\ error_arg' = error_arg
          /\ requests' = requests
       \/ /\ \E i \in DOMAIN plan_tasks : plan_tasks[i].table \in DOMAIN schema.tables
          /\ requests' = requests + 1
          /\ \/ pc' = "done" /\ result' = "Api" /\ error_arg' = ""
             \/ pc' = "done" /\ result' = "Custom" /\ error_arg' = "plan"
             \/ /\ pc' = IF plan_data_pools = {} THEN "sort" ELSE "pools"
                /\ result' = result /\ error_arg' = error_arg
    /\ UNCHANGED <<schema, plan, plan_data_pools, plan_tasks, attempt, data_pools,
                   sorted_entities, idx, generated_pks,
                   open_tx, tx_rows, entity, generated_pks_for_this_table, row_i, db,
                   issued, started, committed, skipped, failed, tx_begun, inserts>>

(* get_pool_data gives up after this many attempts.                         *)
MAX_RETRIES == 3

(* What parse_pool_response can return for an answer it accepts: a list of  *)
(* strings that is never empty.                                             *)
PoolResponses == {<<"x">>, <<"x", "y">>}

(* How one attempt of get_pool_data can end: query_gemini fails, or it      *)
(* answers and parse_pool_response rejects the text, or the text parses to  *)
(* a list.                                                                  *)
AttemptOutcomes ==
    {<<"Err", "request">>, <<"Err", "parse">>} \cup {<<"Ok", data>> : data \in PoolResponses}

another_attempt_after_last(a) == a < MAX_RETRIES

(* for attempt in 0..MAX_RETRIES: is there an attempt after this one?       *)
another_attempt(a) == a + 1 < MAX_RETRIES

(* One attempt of get_pool_data for a pool of the plan not filled yet (the  *)
(* pools are taken in HashMap order): a request to Gemini, whose answer is  *)
(* accepted, or which fails and is repeated until MAX_RETRIES attempts have *)
(* failed.  After the last pool the sort is next.                           *)
RequestPool ==
    /\ pc = "pools"
    /\ UNCHANGED <<query, selections, selected_table>>
    /\ \E pool_name \in plan_data_pools \ DOMAIN data_pools, outcome \in AttemptOutcomes :
          /\ requests' = requests + 1
          /\ IF outcome[1] = "Ok"
             THEN /\ data_pools' = (pool_name :> outcome[2]) @@ data_pools
                  /\ attempt' = 0
                  /\ pc' = IF plan_data_pools \subseteq DOMAIN data_pools \cup {pool_name}
                           THEN "sort" ELSE "pools"
                  /\ UNCHANGED <<result, error_arg>>
             ELSE IF another_attempt(attempt)
                  THEN /\ attempt' = attempt + 1
                       /\ UNCHANGED <<pc, result, error_arg, data_pools>>
                  ELSE /\ pc' = "done" /\ result' = "Custom" /\ error_arg' = "pool"
                       /\ UNCHANGED <<attempt, data_pools>>
    /\ UNCHANGED <<schema, plan, plan_data_pools, plan_tasks, sorted_entities, idx,
                   generated_pks, open_tx, tx_rows, entity,
                   generated_pks_for_this_table, row_i, db, issued, started,
                   committed, skipped, failed, tx_begun, inserts>>

(* build_plan_dependency_graph and toposort, mapped to CyclicDependency.    *)
Sort ==
    /\ pc = "sort"
    /\ UNCHANGED <<query, selections, selected_table>>
    /\ \E values_order \in Perms(DOMAIN entity_map(plan)) :
          LET graph == build_plan_dependency_graph(plan, schema.foreign_keys, values_order)
              sorted == toposort(graph)
          IN IF sorted.ok
             THEN /\ sorted_entities' = sorted.order
                  /\ idx' = 1
                  /\ pc' = "loop"
                  /\ result' = result
                  /\ error_arg' = error_arg
             ELSE /\ sorted_entities' = sorted_entities
                  /\ idx' = idx
                  /\ pc' = "done"
                  /\ result' = "CyclicDependency"
                  /\ error_arg' = ""
    /\ UNCHANGED <<schema, plan, plan_data_pools, plan_tasks, requests, attempt,
                   data_pools, generated_pks, open_tx, tx_rows, entity,
                   generated_pks_for_this_table, row_i, db, issued, started,
                   committed, skipped, failed, tx_begun, inserts>>

(* The error of seed_table, a pair of its kind and of what it carries,      *)
(* leaves run through `?`: run returns it, and the for loop over the        *)
(* entities goes no further.                                                *)
propagate_skipping(e, err) ==
    /\ result' = result
    /\ error_arg' = error_arg
    /\ failed' = e
    /\ pc' = "loop"
    /\ idx' = idx + 1

propagate(e, err) ==
    /\ result' = err[1]
    /\ error_arg' = err[2]
    /\ failed' = e
    /\ pc' = "done"
    /\ idx' = idx

(* An error inside seed_table drops tx, which rolls the transaction back:   *)
(* its rows are gone and nothing else of the database changes.              *)
rollback_all(e) ==
    /\ open_tx' = open_tx \ {e}
    /\ tx_rows' = <<>>
    /\ db' = [t \in Tables |-> <<>>]

rollback(e) ==
    /\ open_tx' = open_tx \ {e}
    /\ tx_rows' = <<>>
    /\ db' = db

(* seed_table returning an error at any point after begin.                  *)
fail_batch(err) ==
    /\ rollback(entity_name)
    /\ propagate(entity_name, err)
    /\ entity' = <<>>
    /\ generated_pks_for_this_table' = <<>>
    /\ row_i' = 0
    /\ UNCHANGED <<schema, plan, plan_data_pools, plan_tasks, sorted_entities, generated_pks,
                   started, committed, skipped>>

(* The for loop of run is over: run returns Ok.                             *)
Finish ==
    /\ pc = "loop"
    /\ UNCHANGED <<query, selections, selected_table>>
    /\ idx > Len(sorted_entities)
    /\ pc' = "done"
    /\ result' = "Ok"
    /\ UNCHANGED <<error_arg, requests, attempt, data_pools>>
    /\ UNCHANGED <<schema, plan, plan_data_pools, plan_tasks, sorted_entities, idx, generated_pks,
                   open_tx, tx_rows, entity, generated_pks_for_this_table, row_i, db,
                   issued, started, committed, skipped, failed, tx_begun, inserts>>

(* An entity whose table has no task: the loop goes on to the next one.     *)
SkipEntity_failing ==
    /\ pc = "loop"
    /\ UNCHANGED <<query, selections, selected_table>>
    /\ idx <= Len(sorted_entities)
    /\ ~has_task(entity_template.target_table)
    /\ skipped' = Append(skipped, entity_name)
    /\ UNCHANGED <<requests, attempt, data_pools>>
    /\ propagate(entity_name, <<"Custom", "no task">>)
    /\ UNCHANGED <<schema, plan, plan_data_pools, plan_tasks, sorted_entities, generated_pks,
                   open_tx, tx_rows, entity, generated_pks_for_this_table, row_i, db,
                   issued, started, committed, tx_begun, inserts>>

SkipEntity ==
    /\ pc = "loop"
    /\ UNCHANGED <<query, selections, selected_table>>
    /\ idx <= Len(sorted_entities)
    /\ ~has_task(entity_template.target_table)
    /\ skipped' = Append(skipped, entity_name)
    /\ UNCHANGED <<requests, attempt, data_pools>>
    /\ idx' = idx + 1
    /\ UNCHANGED <<schema, plan, plan_data_pools, plan_tasks, pc, result, error_arg, sorted_entities,
                   generated_pks, open_tx, tx_rows, entity,
                   generated_pks_for_this_table, row_i, db, issued, started,
                   committed, failed, tx_begun, inserts>>

----------------------------------------------------------------------------
(* Seeder::seed_table                                                       *)

table_schema == schema.tables[entity_template.target_table]

available_pks_shared(all_previous_pks, table, this_table) ==
    [t \in DOMAIN all_previous_pks \cup {table} |->
        (IF t \in DOMAIN all_previous_pks THEN all_previous_pks[t] ELSE <<>>)
        \o this_table]

available_pks_without_batch(all_previous_pks, table, this_table) ==
    [t \in DOMAIN all_previous_pks \cup {table} |->
        IF t \in DOMAIN all_previous_pks THEN all_previous_pks[t] ELSE <<>>]

(* available_pks: the pools of the earlier entities with the entry of this  *)
(* table replaced by the keys of this batch so far.                         *)
available_pks(all_previous_pks, table, this_table) ==
    [t \in DOMAIN all_previous_pks \cup {table} |->
        IF t = table THEN this_table ELSE all_previous_pks[t]]

SupportedPkTypes_with_numeric == {"character varying", "text", "varchar", "uuid",
                                  "integer", "smallint", "bigint", "numeric"}

SupportedPkTypes == {"character varying", "text", "varchar", "uuid",
                     "integer", "smallint", "bigint"}

(* seed_table is handed the data pools that run has filled (pools:          *)
(* &DataPools) and sends nothing to the plan/pool source itself.            *)
requests_in_seed_table_lazy(n) == n + 1

requests_in_seed_table(n) == n

(* run calls seed_table for an entity with a task: the table's schema is    *)
(* looked up and the transaction is begun.  Both can fail.                  *)
BeginBatch ==
    /\ pc = "loop"
    /\ UNCHANGED <<query, selections, selected_table>>
    /\ idx <= Len(sorted_entities)
    /\ has_task(entity_template.target_table)
    /\ started' = Append(started, entity_name)
    /\ requests' = requests_in_seed_table(requests)
    /\ UNCHANGED <<attempt, data_pools>>
    /\ IF entity_template.target_table \notin DOMAIN schema.tables
       THEN /\ propagate(entity_name, <<"Custom", "no schema">>)
            /\ UNCHANGED <<open_tx, tx_begun>>
       ELSE \/ /\ propagate(entity_name, <<"Db", "">>)
               /\ UNCHANGED <<open_tx, tx_begun>>
            \/ /\ open_tx' = open_tx \cup {entity_name}
               /\ tx_begun' = tx_begun + 1
               /\ pc' = "rows"
               /\ UNCHANGED <<result, error_arg, failed, idx>>
    /\ tx_rows' = <<>>
    /\ entity' = <<>>
    /\ generated_pks_for_this_table' = <<>>
    /\ row_i' = 0
    /\ UNCHANGED <<schema, plan, plan_data_pools, plan_tasks, sorted_entities, generated_pks, db,
                   issued, committed, skipped, inserts>>

(* The INSERT of one row, executed on the transaction: the row is known by  *)
(* its batch and the key the database gave it (0 without a key read back).  *)
execute_autocommit(key) ==
    /\ tx_rows' = Append(tx_rows, [batch |-> entity_name, pk |-> key])
    /\ db' = [db EXCEPT ![entity_template.target_table] =
                           Append(@, [batch |-> entity_name, pk |-> key])]
    /\ inserts' = inserts + 1

execute(key) ==
    /\ tx_rows' = Append(tx_rows, [batch |-> entity_name, pk |-> key])
    /\ db' = db
    /\ inserts' = inserts + 1

(* The INSERT names the columns of the row only.  The database gives a     *)
(* column that is left out its default, or NULL without one, and refuses    *)
(* the row if that breaks NOT NULL.                                         *)
database_accepts(columns, row) ==
    \A c \in DOMAIN columns \ DOMAIN row :
        columns[c].is_nullable \/ columns[c].column_default # ""

(* One iteration of the for loop of seed_table: the row is generated from   *)
(* the pools available and inserted; with a primary key column the key the  *)
(* database returns is read back and kept.                                  *)
SeedRow ==
    /\ pc = "rows"
    /\ UNCHANGED <<query, selections, selected_table>>
    /\ row_i < task.rows
    /\ UNCHANGED <<requests, attempt, data_pools>>
    /\ LET table == entity_template.target_table
           pools == available_pks(generated_pks, table, generated_pks_for_this_table)
       IN \E g \in generate_entity(entity_template.fields, data_pools, pools, EmptyMap) :
            IF g.err # ""
            THEN fail_batch(<<g.err, g.arg>>) /\ UNCHANGED <<issued, tx_begun, inserts>>
            ELSE \/ fail_batch(<<"Db", "">>) /\ UNCHANGED <<issued, tx_begun, inserts>>
                 \/ /\ database_accepts(table_schema.columns, g.entity)
                    /\ IF table_schema.primary_key_column # ""
                       THEN IF table_schema.pk_data_type \in SupportedPkTypes
                            THEN LET key == Len(issued) + 1
                                 IN /\ execute(key)
                                    /\ entity' = g.entity
                                    /\ issued' = Append(issued, entity_name)
                                    /\ generated_pks_for_this_table' =
                                           Append(generated_pks_for_this_table, key)
                                    /\ row_i' = row_i + 1
                                    /\ UNCHANGED <<schema, plan, plan_data_pools, plan_tasks, pc, result, error_arg,
                                                   sorted_entities, idx, generated_pks,
                                                   open_tx, started, committed, skipped,
                                                   failed, tx_begun>>
                            ELSE /\ fail_batch(<<"Custom", "unsupported pk type">>)
                                 /\ inserts' = inserts + 1
                                 /\ UNCHANGED <<issued, tx_begun>>
                       ELSE /\ execute(0)
                            /\ entity' = g.entity
                            /\ row_i' = row_i + 1
                            /\ UNCHANGED <<schema, plan, plan_data_pools, plan_tasks, pc, result, error_arg,
                                           sorted_entities, idx, generated_pks, open_tx,
                                           generated_pks_for_this_table, issued, started,
                                           committed, skipped, failed, tx_begun>>

(* What run does with the keys seed_table returned.                         *)
keep_pks_never(pools, table, pks) == pools

keep_pks_even_empty(pools, table, pks) ==
    [t \in DOMAIN pools \cup {table} |-> IF t = table THEN pks ELSE pools[t]]

keep_pks_only(pools, table, pks) ==
    IF pks # <<>> THEN [t \in {table} |-> pks] ELSE pools

keep_pks(pools, table, pks) ==
    IF pks # <<>>
    THEN [t \in DOMAIN pools \cup {table} |-> IF t = table THEN pks ELSE pools[t]]
    ELSE pools

(* The end of the transaction at commit.                                    *)
close_tx(e) == open_tx \ {e}

(* Every row of the batch is in: the transaction commits, seed_table        *)
(* returns the keys and run keeps them and goes on to the next entity.  A   *)
(* failing commit is an error like any other.                               *)
CommitBatch ==
    /\ pc = "rows"
    /\ UNCHANGED <<query, selections, selected_table>>
    /\ row_i = task.rows
    /\ UNCHANGED <<requests, attempt, data_pools>>
    /\ \/ fail_batch(<<"Db", "">>) /\ UNCHANGED <<issued, tx_begun, inserts>>
       \/ /\ db' = [db EXCEPT ![entity_template.target_table] = @ \o tx_rows]
          /\ open_tx' = close_tx(entity_name)
          /\ tx_rows' = <<>>
          /\ entity' = <<>>
          /\ committed' = Append(committed, entity_name)
          /\ generated_pks' = keep_pks(generated_pks, entity_template.target_table,
                                       generated_pks_for_this_table)
          /\ generated_pks_for_this_table' = <<>>
          /\ row_i' = 0
          /\ idx' = idx + 1
          /\ pc' = "loop"
          /\ UNCHANGED <<schema, plan, plan_data_pools, plan_tasks, result, error_arg, sorted_entities, issued,
                         started, skipped, failed, tx_begun, inserts>>

Next == Start \/ RequestPool \/ Sort \/ SkipEntity \/ BeginBatch \/ SeedRow \/ CommitBatch \/ Finish

Spec == Init /\ [][Next]_vars

----------------------------------------------------------------------------
(* generate_entity on its own: one call, for the fields of one template,    *)
(* with data pools and key pools of any content.                            *)

(* The parameters a plan may give a field of each generator.                *)
ParamSets(generator) ==
    CASE generator = "pk_hash" -> {EmptyMap, "length" :> 8, "length" :> 0}
      [] generator = "from_pool" -> {EmptyMap, "pool_name" :> "p", "pool_name" :> "q"}
      [] generator = "template" ->
             {EmptyMap,
              "format" :> << <<"lit", "id-">>, <<"key", "c1">>, <<"key", "c9">>,
                            <<"random_digits", 4>> >>}
      [] generator \in {"words", "sentence"} ->
             {EmptyMap, "min" :> 1, "max" :> 7, ("min" :> 1) @@ ("max" :> 3),
              ("min" :> 3) @@ ("max" :> 3)}
      [] generator = "number_range" ->
             {EmptyMap, "min" :> 98, "min" :> 101, "max" :> 2, ("min" :> 3) @@ ("max" :> 5),
              ("min" :> 4) @@ ("max" :> 4), ("min" :> 5) @@ ("max" :> 3)}
      [] generator = "boolean" ->
             {EmptyMap, "true_chance" :> 0, "true_chance" :> 100, "true_chance" :> 150}
      [] generator = "datetime_range" ->
             {EmptyMap, "start" :> "2022-01-01", "end" :> "2022-01-01",
              "start" :> "yesterday",
              ("start" :> "2022-01-01") @@ ("end" :> "2022-01-01"),
              ("start" :> "2024-01-01") @@ ("end" :> "2020-01-01")}
      [] OTHER -> {EmptyMap}

GenGenerators == {"pk_hash", "from_pool", "template", "words", "number_range",
                  "boolean", "sentence", "datetime_range", "bogus"}

GenFields(column_name) ==
    UNION {{Field(column_name, generator, params) : params \in ParamSets(generator)} :
              generator \in GenGenerators}
    \cup {[column_name |-> column_name, generator |-> "fk", references |-> t,
           params |-> EmptyMap] : t \in {"a", "b", NoTable}}

(* A template between the column it names first and the column it names    *)
(* last, and a template behind a name from a pool and an age.               *)
TemplateFieldLists ==
    {<<Field("c1", "pk_hash", EmptyMap),
       Field("c2", "template",
             "format" :> << <<"key", "c1">>, <<"lit", "-">>, <<"key", "c3">> >>),
       f>> : f \in {Field("c3", "pk_hash", EmptyMap),
                    Field("c3", "number_range", ("min" :> 3) @@ ("max" :> 5)),
                    Field("c3", "from_pool", "pool_name" :> "p")}}
    \cup {<<Field("first_name", "from_pool", "pool_name" :> "p"),
            Field("age", "number_range", ("min" :> 30) @@ ("max" :> 30)),
            Field("t", "template",
                  "format" :> << <<"key", "first_name">>, <<"lit", " is ">>,
                                <<"key", "age">> >>)>>}

(* One field, or a field behind one that has put a value into the row, or   *)
(* three fields with a template.                                            *)
GenFieldLists ==
    {<<f>> : f \in GenFields("c1")}
    \cup {<<Field("c1", "pk_hash", EmptyMap), f>> : f \in GenFields("c2")}
    \cup TemplateFieldLists

GenDataPools == {EmptyMap, "p" :> <<"x", "y">>, "p" :> <<>>, "p" :> <<"Ann", "", "{age}">>}

GenPkPools == {EmptyMap, "a" :> <<>>, "a" :> <<1, 2>>}

GenInit ==
    /\ schema = [tables |-> MakeTables(NoTable, "none", "id", "nullable"), foreign_keys |-> <<>>]
    /\ \E fields \in GenFieldLists :
          plan = <<[entity_name |-> "E1", target_table |-> "b", fields |-> fields]>>
    /\ plan_data_pools = {}
    /\ plan_tasks = <<>>
    /\ pc = "generate"
    /\ result = "none"
    /\ error_arg = ""
    /\ requests = 0
    /\ attempt = 0
    /\ data_pools \in GenDataPools
    /\ sorted_entities = <<>>
    /\ idx = 0
    /\ generated_pks \in GenPkPools
    /\ open_tx = {}
    /\ tx_rows = <<>>
    /\ entity = <<>>
    /\ generated_pks_for_this_table = <<>>
    /\ row_i = 0
    /\ db = [t \in Tables |-> <<>>]
    /\ issued = <<>>
    /\ started = <<>>
    /\ committed = <<>>
    /\ skipped = <<>>
    /\ failed = ""
    /\ tx_begun = 0
    /\ inserts = 0
    /\ query = <<>>
    /\ selections = {}
    /\ selected_table = NoTable

(* The call: its result is kept in result and error_arg, the row in entity. *)
Generate ==
    /\ pc = "generate"
    /\ UNCHANGED <<query, selections, selected_table>>
    /\ \E g \in generate_entity(plan[1].fields, data_pools, generated_pks, EmptyMap) :
          /\ result' = IF g.err = "" THEN "Ok" ELSE g.err
          /\ error_arg' = g.arg
          /\ entity' = g.entity
    /\ pc' = "generated"
    /\ UNCHANGED <<schema, plan, plan_data_pools, plan_tasks, requests, attempt,
                   data_pools, sorted_entities, idx, generated_pks, open_tx, tx_rows,
                   generated_pks_for_this_table, row_i, db, issued, started,
                   committed, skipped, failed, tx_begun, inserts>>

GenNext == Generate

GenSpec == GenInit /\ [][GenNext]_vars

----------------------------------------------------------------------------
(* The binding of a row's values to the placeholders of the INSERT in       *)
(* seed_table, on its own: one value, for a column of any type.  A bound    *)
(* value is <<"i64", n>>, <<"bool", b>>, <<"text", s>> or <<"json", v>>.     *)

(* The decimal texts s.parse::<i64>() reads as n: an optional sign, then    *)
(* digits, with leading zeros allowed.                                      *)
decimal_texts(n) ==
    IF n >= 0
    THEN {sign \o zeros \o ToString(n) : sign \in {"", "+"}, zeros \in {"", "0", "00"}}
    ELSE {"-" \o zeros \o ToString(0 - n) : zeros \in {"", "0", "00"}}

ParseRange == (0 - 50)..50

parse_i64(str) ==
    IF \E n \in ParseRange : str \in decimal_texts(n)
    THEN <<"Ok", CHOOSE n \in ParseRange : str \in decimal_texts(n)>>
    ELSE <<"Err">>

unwrap_or(r, default) == IF r[1] = "Ok" THEN r[2] ELSE default

(* The last arm and the unknown column: query.bind(val), the value as it is. *)
bind_generic(val) == <<"json", val>>

bind_integer_as_given(val) == <<"json", val>>

(* The arm of the integer types: as_i64, else as_bool, else as_str and      *)
(* parse, else 0.                                                           *)
bind_integer(val) ==
    <<"i64", CASE val[1] = "n" -> val[2]
               [] val[1] = "b" -> IF val[2] THEN 1 ELSE 0
               [] val[1] = "s" -> unwrap_or(parse_i64(val[2]), 0)
               [] OTHER -> 0>>

(* The arm of boolean: as_bool, else as_i64 != 0, else the strings "true"   *)
(* and "1", else false.                                                     *)
bind_boolean(val) ==
    <<"bool", CASE val[1] = "b" -> val[2]
                [] val[1] = "n" -> val[2] # 0
                [] val[1] = "s" -> val[2] \in {"true", "1"}
                [] OTHER -> FALSE>>

(* The arm of the text, uuid and date types: val.as_str().unwrap_or("").    *)
bind_text(val) == <<"text", IF val[1] = "s" THEN val[2] ELSE "">>

(* The match on the type of the column the value is for; a column the       *)
(* schema does not know is bound as it is.                                  *)
bind(columns, col_name, val) ==
    IF col_name \notin DOMAIN columns THEN bind_generic(val)
    ELSE CASE columns[col_name].data_type \in {"integer", "bigint", "smallint", "int4"} ->
                  bind_integer(val)
           [] columns[col_name].data_type = "boolean" -> bind_boolean(val)
           [] columns[col_name].data_type \in
                  {"character varying", "text", "varchar", "uuid",
                   "timestamp with time zone", "timestamp without time zone", "date"} ->
                  bind_text(val)
           [] OTHER -> bind_generic(val)

(* The values a row can hold: numbers, booleans, strings, and a number      *)
(* that is no integer.                                                      *)
BindValues ==
    {<<"n", n>> : n \in {0 - 3, 0, 1, 42}}
    \cup {<<"b", b>> : b \in BOOLEAN}
    \cup {<<"s", str>> : str \in {"12", "-7", "+3", "007", "x", "", "1.5", "true", "1", "4 2"}}
    \cup {<<"float", "1.5">>}

BindTypes == {"integer", "bigint", "smallint", "int4", "boolean", "text", "uuid",
              "numeric", "jsonb"}

BindInit ==
    /\ \E data_type \in BindTypes, known \in BOOLEAN :
          schema = [tables |->
                       [t \in {"b"} |->
                           [columns |-> IF known
                                        THEN "c1" :> ColumnSchema(data_type, TRUE, "")
                                        ELSE "c2" :> ColumnSchema(data_type, TRUE, ""),
                            pk_columns |-> {},
                            primary_key_column |-> "",
                            pk_data_type |-> "text"]],
                    foreign_keys |-> <<>>]
    /\ plan = <<[entity_name |-> "E1", target_table |-> "b", fields |-> <<>>]>>
    /\ \E val \in BindValues : entity = "c1" :> val
    /\ plan_data_pools = {}
    /\ plan_tasks = <<>>
    /\ pc = "bind"
    /\ result = "none"
    /\ error_arg = ""
    /\ requests = 0
    /\ attempt = 0
    /\ data_pools = EmptyMap
    /\ sorted_entities = <<>>
    /\ idx = 0
    /\ generated_pks = EmptyMap
    /\ open_tx = {}
    /\ tx_rows = <<>>
    /\ generated_pks_for_this_table = <<>>
    /\ row_i = 0
    /\ db = [t \in Tables |-> <<>>]
    /\ issued = <<>>
    /\ started = <<>>
    /\ committed = <<>>
    /\ skipped = <<>>
    /\ failed = ""
    /\ tx_begun = 0
    /\ inserts = 0
    /\ query = <<>>
    /\ selections = {}
    /\ selected_table = NoTable

(* The loop that binds the values of the row, column by column.             *)
Bind ==
    /\ pc = "bind"
    /\ query' = [c \in DOMAIN entity |-> bind(schema.tables["b"].columns, c, entity[c])]
    /\ pc' = "bound"
    /\ UNCHANGED <<schema, plan, plan_data_pools, plan_tasks, result, error_arg, requests,
                   attempt, data_pools, sorted_entities, idx, generated_pks, open_tx,
                   tx_rows, entity, generated_pks_for_this_table, row_i, db, issued,
                   started, committed, skipped, failed, tx_begun, inserts,
                   selections, selected_table>>

BindNext == Bind

BindSpec == BindInit /\ [][BindNext]_vars

----------------------------------------------------------------------------
(* Notions the properties are stated in.  None of them uses the operators   *)
(* of the run above: the foreign keys are read from the schema directly.    *)

(* The foreign keys with both tables mapped to plan entities, as pairs      *)
(* parent table, child table, and the same edges between the entities.      *)
MappedTableEdges ==
    {<<schema.foreign_keys[i].to_table, schema.foreign_keys[i].from_table>> :
        i \in {j \in DOMAIN schema.foreign_keys :
                  /\ schema.foreign_keys[j].to_table \in DOMAIN entity_map(plan)
                  /\ schema.foreign_keys[j].from_table \in DOMAIN entity_map(plan)}}

EntityEdges == {<<entity_map(plan)[e[1]], entity_map(plan)[e[2]]>> : e \in MappedTableEdges}

Successors(E, S) == {e[2] : e \in {d \in E : d[1] \in S}}

RECURSIVE ReachableFrom(_, _, _)
ReachableFrom(E, frontier, seen) ==
    IF frontier \subseteq seen THEN seen
    ELSE ReachableFrom(E, Successors(E, frontier), seen \cup frontier)

HasCycle(E) == \E e \in E : e[1] \in ReachableFrom(E, {e[2]}, {})

target_of(e) == template_of(e).target_table

rows_of(e) == task_of(target_of(e)).rows

CommittedRows == UNION {Range(db[t]) : t \in Tables}

CommittedKeys(t) == IF t \in Tables THEN {r.pk : r \in Range(db[t])} \ {0} ELSE {}

RowsInDb(e) == UNION {{<<t, i>> : i \in {j \in DOMAIN db[t] : db[t][j].batch = e}} :
                         t \in Tables}

FkFields(e) == {template_of(e).fields[i] :
                   i \in {j \in DOMAIN template_of(e).fields :
                             template_of(e).fields[j].generator = "fk"}}

IsPrefix(s, t) == Len(s) <= Len(t) /\ \A i \in DOMAIN s : s[i] = t[i]

----------------------------------------------------------------------------
(* C1: when the foreign keys between the plan's entities form no cycle,     *)
(* the sort ends with an order (never CyclicDependency), the order holds    *)
(* every entity of the graph once with the parent of every edge before its  *)
(* child, and seed_table is called along that order.                        *)
C1_ParentBeforeChild ==
    ~HasCycle(EntityEdges) =>
        /\ result # "CyclicDependency"
        /\ (pc = "sort" =>
               \A values_order \in Perms(DOMAIN entity_map(plan)) :
                   toposort(build_plan_dependency_graph(plan, schema.foreign_keys,
                                                        values_order)).ok)
        /\ idx >= 1 =>
              /\ Range(sorted_entities) = Range(entity_map(plan))
              /\ \A i, j \in DOMAIN sorted_entities :
                    sorted_entities[i] = sorted_entities[j] => i = j
              /\ \A e \in EntityEdges :
                    Pos(sorted_entities, e[1]) < Pos(sorted_entities, e[2])
              /\ \A i, j \in DOMAIN started :
                    i < j => Pos(sorted_entities, started[i]) < Pos(sorted_entities, started[j])

(* C1's case: a parent and its child, both seeded.                          *)
C1_Witness ==
    /\ ~HasCycle(EntityEdges)
    /\ \E e \in EntityEdges : e[1] \in Range(committed) /\ e[2] \in Range(committed)

(* C2: when the foreign keys among the tables mapped to plan entities hold  *)
(* a cycle, a run that comes to sort its entities ends there with           *)
(* CyclicDependency, and no run begins a transaction or issues an INSERT.   *)
C2_CycleAborts ==
    /\ [](HasCycle(MappedTableEdges) =>
             /\ tx_begun = 0 /\ inserts = 0 /\ open_tx = {} /\ started = <<>>
             /\ pc \notin {"loop", "rows"}
             /\ CommittedRows = {})
    /\ [][HasCycle(MappedTableEdges) /\ pc = "sort" =>
             pc' = "done" /\ result' = "CyclicDependency"]_vars

(* C2's case: a run over a cyclic schema that has ended at the sort.        *)
C2_Witness ==
    /\ HasCycle(MappedTableEdges)
    /\ pc = "done"
    /\ result = "CyclicDependency"

(* C3: every value an fk field that references another table has put into  *)
(* the row inserted last is a key captured in the pool of the referenced    *)
(* table and the key of a committed row of that table; a value of an fk     *)
(* field that references the entity's own table is the key of a row         *)
(* inserted before it in the same batch.                                    *)
C3_FkValuesAreCommittedKeys ==
    pc = "rows" =>
        \A f \in FkFields(entity_name) :
            f.column_name \in DOMAIN entity =>
                IF f.references # target_of(entity_name)
                THEN /\ f.references \in DOMAIN generated_pks
                     /\ entity[f.column_name] \in Range(generated_pks[f.references])
                     /\ entity[f.column_name] \in CommittedKeys(f.references)
                ELSE \E i \in 1..(Len(tx_rows) - 1) : tx_rows[i].pk = entity[f.column_name]

(* C3's case: the row of a child was inserted with a key of its parent,     *)
(* which has as many committed rows as its task asked for.                  *)
C3_Witness ==
    /\ pc = "rows"
    /\ row_i = MaxRows
    /\ \E f \in FkFields(entity_name) :
          /\ f.references # target_of(entity_name)
          /\ f.column_name \in DOMAIN entity
          /\ Cardinality(CommittedKeys(f.references)) = MaxRows

(* C4: a batch is all or nothing.  The database holds of every entity       *)
(* either no row or the task's number of rows, and only of an entity whose  *)
(* batch committed; the rows of the open transaction are not in it; every   *)
(* key of the pool belongs to a committed row of its table; and of an       *)
(* entity whose batch failed neither a row nor a key is kept.  Each entity  *)
(* gets one transaction at most.                                            *)
C4_BatchAllOrNothing ==
    /\ \A e \in Range(sorted_entities) :
          /\ Cardinality(RowsInDb(e)) \in {0, IF e \in Range(committed) THEN rows_of(e) ELSE 0}
          /\ e \in Range(committed) => Cardinality(RowsInDb(e)) = rows_of(e)
    /\ \A r \in Range(tx_rows) : r \notin CommittedRows /\ r.batch \in open_tx
    /\ \A t \in DOMAIN generated_pks : Range(generated_pks[t]) \subseteq CommittedKeys(t)
    /\ failed # "" =>
          /\ RowsInDb(failed) = {}
          /\ tx_rows = <<>> /\ open_tx = {}
          /\ \A t \in DOMAIN generated_pks : \A k \in Range(generated_pks[t]) :
                issued[k] # failed
    /\ tx_begun <= Len(started)
    /\ \A i, j \in DOMAIN started : started[i] = started[j] => i = j

(* C4's case: a batch failed after a row of it had been inserted.           *)
C4_Witness ==
    /\ failed # ""
    /\ \E k \in DOMAIN issued : issued[k] = failed
    /\ committed # <<>>

(* C5: at most one transaction is open at any time, and while the rows of   *)
(* an entity are generated every entity before it in the order that has a   *)
(* task is committed, its transaction closed, and the keys of the entity    *)
(* committed last are in the pool of its table.                             *)
C5_OneEntityAtATime ==
    /\ Cardinality(open_tx) <= 1
    /\ pc = "rows" =>
          /\ open_tx = {sorted_entities[idx]}
          /\ \A j \in 1..(idx - 1) :
                has_task(target_of(sorted_entities[j])) =>
                    /\ sorted_entities[j] \in Range(committed)
                    /\ sorted_entities[j] \notin open_tx
          /\ committed # <<>> =>
                LET last == committed[Len(committed)]
                    keys == {db[tk[1]][tk[2]].pk : tk \in RowsInDb(last)} \ {0}
                IN keys # {} =>
                      /\ target_of(last) \in DOMAIN generated_pks
                      /\ keys = Range(generated_pks[target_of(last)])

(* C5's case: the second entity's rows are generated after the first one's  *)
(* batch committed with keys.                                               *)
C5_Witness ==
    /\ pc = "rows"
    /\ committed # <<>>
    /\ generated_pks # EmptyMap
    /\ row_i = 0

(* C6: while the rows of an entity are generated, every key in the pools    *)
(* handed to the generator was returned to an entity that is not later in   *)
(* the order than the entity itself, and so was every fk value of a row.    *)
C6_NoKeysOfLaterEntities ==
    /\ \A e \in open_tx :
          LET pools == available_pks(generated_pks, target_of(e),
                                     generated_pks_for_this_table)
          IN \A t \in DOMAIN pools : \A k \in Range(pools[t]) :
                Pos(sorted_entities, issued[k]) <= Pos(sorted_entities, e)
    /\ pc = "rows" =>
          \A f \in FkFields(entity_name) :
              f.column_name \in DOMAIN entity =>
                  Pos(sorted_entities, issued[entity[f.column_name]]) <= idx

(* C6's case: an entity with a later one behind it is generated from the    *)
(* keys of an earlier one.                                                  *)
C6_Witness ==
    /\ pc = "rows"
    /\ idx < Len(sorted_entities)
    /\ has_task(target_of(sorted_entities[idx + 1]))
    /\ \E t \in DOMAIN generated_pks :
          t # target_of(sorted_entities[idx]) /\ generated_pks[t] # <<>>
    /\ \E f \in FkFields(sorted_entities[idx]) : f.references \in DOMAIN generated_pks

(* C7: whenever the fk fields of an entity are about to be evaluated, the   *)
(* pools handed to the generator hold an entry for every referenced table   *)
(* that an entity of the sorted order is seeded into, with a task of at     *)
(* least one row and a primary key.                                         *)
C7_ReferencedPoolExists ==
    (pc = "rows" /\ row_i < task.rows) =>
        \A f \in FkFields(sorted_entities[idx]) :
            ( /\ \E n \in Range(sorted_entities) : target_of(n) = f.references
              /\ f.references \in DOMAIN schema.tables
              /\ has_task(f.references)
              /\ task_of(f.references).rows >= 1
              /\ schema.tables[f.references].primary_key_column # "" )
            => f.references \in DOMAIN available_pks(generated_pks,
                                                     target_of(sorted_entities[idx]),
                                                     generated_pks_for_this_table)

(* C8: once the batch of an entity has failed the run is over with that     *)
(* error: the loop stands at the failed entity, seed_table was called for   *)
(* no entity behind it, and for no entity twice.                            *)
C8_FailureStopsRun ==
    /\ failed # "" =>
          /\ pc = "done"
          /\ result \notin {"none", "Ok", "CyclicDependency"}
          /\ sorted_entities[idx] = failed
          /\ started # <<>> /\ started[Len(started)] = failed
          /\ \A j \in (idx + 1)..Len(sorted_entities) :
                /\ sorted_entities[j] \notin Range(started)
                /\ sorted_entities[j] \notin Range(committed)
                /\ RowsInDb(sorted_entities[j]) = {}
    /\ \A i, j \in DOMAIN started : started[i] = started[j] => i = j
    /\ (pc = "done" /\ result \notin {"Ok", "CyclicDependency"} /\ idx >= 1) => failed # ""

(* C8's case: a batch failed with an entity that has a task still behind it.*)
C8_Witness ==
    /\ failed # ""
    /\ \E j \in (idx + 1)..Len(sorted_entities) : has_task(target_of(sorted_entities[j]))

(* C9: no step removes or changes a committed row, and the step at which a  *)
(* batch fails leaves the database as it is.                                *)
C9_CommittedRowsStay ==
    [][ /\ \A t \in Tables : IsPrefix(db[t], db'[t])
        /\ (failed' # failed => db' = db) ]_vars

(* C9's case: a batch failed after the batch of an earlier entity had put   *)
(* rows into the database.                                                  *)
C9_Witness ==
    /\ failed # ""
    /\ \E e \in Range(committed) : e # failed /\ RowsInDb(e) # {}
    /\ \E k \in DOMAIN issued : issued[k] = failed

(* C10: an entity whose table has no task is passed over: seed_table is not *)
(* called for it, no transaction is begun and no row is inserted for it,    *)
(* its table gets no pool entry, it is not what the run fails on, and every *)
(* entity the loop has passed without a task was passed over this way.      *)
C10_NoTaskIsSkipped ==
    /\ \A e \in Range(skipped) :
          /\ ~has_task(target_of(e))
          /\ e \notin Range(started)
          /\ e \notin open_tx
          /\ target_of(e) \notin DOMAIN generated_pks
          /\ \A r \in CommittedRows \cup Range(tx_rows) : r.batch # e
          /\ failed # e
    /\ \A j \in 1..Len(sorted_entities) :
          (j < idx /\ ~has_task(target_of(sorted_entities[j]))) =>
              sorted_entities[j] \in Range(skipped)
    /\ tx_begun <= Len(started)
    /\ Len(skipped) + Len(started) <= Len(sorted_entities)

(* C10's case: an entity was passed over and one behind it was seeded.      *)
C10_Witness ==
    \E e \in Range(skipped) : \E c \in Range(committed) :
        /\ Pos(sorted_entities, e) < Pos(sorted_entities, c)
        /\ RowsInDb(c) # {}

----------------------------------------------------------------------------
(* Notions of the properties below.                                         *)

(* Every template of the plan has a name of its own.                        *)
UniqueNames ==
    \A i, j \in DOMAIN plan : plan[i].entity_name = plan[j].entity_name => i = j

(* The table has no primary key column recorded in the schema.              *)
NoPk(t) == t \in DOMAIN schema.tables /\ schema.tables[t].primary_key_column = ""

SelfLoops(E) == {e \in E : e[1] = e[2]}

(* C11: a table without a primary key column is never a key of the pools,   *)
(* and an entity with an fk field that references such a table, its own     *)
(* table included, gets no row generated: the field ends in an error.       *)
C11_NoPkTableGivesError ==
    /\ \A t \in Tables : NoPk(t) => t \notin DOMAIN generated_pks
    /\ pc = "rows" =>
          \A f \in FkFields(entity_name) : NoPk(f.references) => row_i = 0

(* C12: in a plan whose entity names are unique, no step removes an entry   *)
(* of the pools or changes the keys of an entry that exists.                *)
C12_PoolWriteOnce ==
    [][UniqueNames =>
          \A t \in DOMAIN generated_pks :
              t \in DOMAIN generated_pks' /\ generated_pks'[t] = generated_pks[t]]_vars

(* C12's case: two entities are mapped to one table, and the run has ended  *)
(* with an entry for that table and an entry for another one.               *)
C12_Witness ==
    /\ UniqueNames
    /\ pc = "done" /\ result = "Ok"
    /\ \E i, j \in DOMAIN plan :
          /\ i # j
          /\ plan[i].target_table = plan[j].target_table
          /\ plan[i].target_table \in DOMAIN generated_pks
          /\ DOMAIN generated_pks # {plan[i].target_table}

(* C13: when the only cycles among the mapped foreign keys are tables that  *)
(* reference themselves, the run does not end with CyclicDependency.        *)
C13_SelfReferenceIsSeeded ==
    (SelfLoops(MappedTableEdges) # {} /\ ~HasCycle(MappedTableEdges \ SelfLoops(MappedTableEdges)))
        => result # "CyclicDependency"

(* C14: the order the entities are processed in is a function of the schema *)
(* and the plan: whatever order the HashMap yields the nodes in, the sort   *)
(* gives the order this run processes.                                      *)
C14_OrderIsDeterministic ==
    idx >= 1 =>
        \A values_order \in Perms(DOMAIN entity_map(plan)) :
            toposort(build_plan_dependency_graph(plan, schema.foreign_keys,
                                                 values_order)).order = sorted_entities

(* The nine generators of the match in generate_entity.                     *)
KnownGenerators == {"pk_hash", "from_pool", "template", "fk", "words",
                    "number_range", "boolean", "sentence", "datetime_range"}

(* What the one call of GenSpec returned, as an outcome of generate_entity. *)
Returned == [err |-> IF result = "Ok" THEN "" ELSE result, arg |-> error_arg,
             entity |-> entity]

(* C15: an fk field whose table has no entry in the key pools ends the call *)
(* with DependencyNotFound carrying that table and no row; with an entry    *)
(* the call never ends with DependencyNotFound, an empty entry leaves the   *)
(* column out of the row, and any other entry gives one of its keys.        *)
C15_FkOutcomes ==
    pc = "generated" =>
        \A i \in DOMAIN plan[1].fields :
            LET f == plan[1].fields[i]
            IN (f.generator = "fk" /\ f.references # NoTable) =>
                  IF f.references \notin DOMAIN generated_pks
                  THEN /\ result = "DependencyNotFound"
                       /\ error_arg = f.references
                       /\ entity = <<>>
                  ELSE /\ result = "Ok"
                       /\ IF generated_pks[f.references] = <<>>
                          THEN f.column_name \notin DOMAIN entity
                          ELSE /\ f.column_name \in DOMAIN entity
                               /\ entity[f.column_name] \in Range(generated_pks[f.references])

(* C15's case: the fk field found the entry of its table empty and the row  *)
(* came back without the column, behind a column that was generated.        *)
C15_Witness ==
    /\ pc = "generated"
    /\ Len(plan[1].fields) = 2
    /\ plan[1].fields[2].generator = "fk"
    /\ plan[1].fields[2].references \in DOMAIN generated_pks
    /\ generated_pks[plan[1].fields[2].references] = <<>>
    /\ result = "Ok"
    /\ DOMAIN entity = {"c1"}

(* The generators of the entity's fields that are none of the nine.         *)
UnknownKinds(e) ==
    {template_of(e).fields[i].generator : i \in DOMAIN template_of(e).fields}
        \ KnownGenerators

(* C16: an entity with a field of unknown kind and a task of at least one   *)
(* row never gets a row into its transaction or into the database and never *)
(* commits; a run that returned UnknownGenerator carries such a kind of the *)
(* failed entity, is over, and has left no row and no open transaction of   *)
(* that entity; and when no fk field before it can fail, the generation of  *)
(* its first row ends the run with UnknownGenerator, the database as it was.*)
C16_UnknownGeneratorFails ==
    /\ []( /\ \A e \in Range(started) :
                 (UnknownKinds(e) # {} /\ rows_of(e) >= 1) =>
                     /\ e \notin Range(committed)
                     /\ RowsInDb(e) = {}
                     /\ \A i \in DOMAIN tx_rows : tx_rows[i].batch # e
                     /\ target_of(e) \notin DOMAIN generated_pks
           /\ result = "UnknownGenerator" =>
                 /\ pc = "done"
                 /\ failed # ""
                 /\ error_arg \in UnknownKinds(failed)
                 /\ RowsInDb(failed) = {}
                 /\ open_tx = {} /\ tx_rows = <<>> /\ entity = <<>> )
    /\ [][ ( /\ pc = "rows" /\ row_i < task.rows
             /\ UnknownKinds(entity_name) # {}
             /\ \A f \in FkFields(entity_name) :
                   f.references \in DOMAIN generated_pks \cup {target_of(entity_name)} )
           => ( /\ pc' = "done"
                /\ result' = "UnknownGenerator"
                /\ failed' = entity_name
                /\ db' = db /\ generated_pks' = generated_pks ) ]_vars

(* C16's case: the run ended with UnknownGenerator after an earlier entity  *)
(* had committed its rows.                                                  *)
C16_Witness ==
    /\ result = "UnknownGenerator"
    /\ \E e \in Range(committed) : RowsInDb(e) # {}

(* The parameters with a default, and the default of each.                  *)
OptionalParams(generator) ==
    CASE generator = "pk_hash" -> {"length"}
      [] generator \in {"words", "sentence", "number_range"} -> {"min", "max"}
      [] generator = "boolean" -> {"true_chance"}
      [] generator = "datetime_range" -> {"start", "end"}
      [] OTHER -> {}

DefaultOf(generator, name) ==
    CASE generator = "pk_hash" -> 20
      [] generator = "words" -> IF name = "min" THEN 2 ELSE 5
      [] generator = "sentence" -> IF name = "min" THEN 5 ELSE 10
      [] generator = "number_range" -> IF name = "min" THEN 0 ELSE 100
      [] generator = "boolean" -> 50
      [] generator = "datetime_range" ->
             IF name = "start" THEN "2020-01-01" ELSE "2024-01-01"

(* The fields of the call with the parameter written out in field i.        *)
WithParam(fields, i, name, v) ==
    [fields EXCEPT ![i].params = (name :> v) @@ @]

CompositePk(t) == t \in DOMAIN schema.tables /\ Cardinality(schema.tables[t].pk_columns) > 1

(* C18: a table whose primary key spans more than one column is recorded    *)
(* with no primary-key column; the rows of an entity committed to it carry  *)
(* no key read back, and the table has no entry in generated_pks.           *)
C18_CompositePkIsNoPk ==
    \A e \in Range(committed) :
        (CompositePk(target_of(e)) /\ RowsInDb(e) # {}) =>
            /\ schema.tables[target_of(e)].primary_key_column = ""
            /\ \A r \in RowsInDb(e) : db[r[1]][r[2]].pk = 0
            /\ target_of(e) \notin DOMAIN generated_pks

(* The tables whose primary key column has a type the read-back of the key *)
(* has no arm for.                                                          *)
UnsupportedPk(t) ==
    /\ t \in DOMAIN schema.tables
    /\ schema.tables[t].primary_key_column # ""
    /\ schema.tables[t].pk_data_type \notin
           {"character varying", "text", "varchar", "uuid", "integer", "smallint", "bigint"}

(* C19: an entity whose table has a primary key column of an unsupported    *)
(* type, and a task of at least one row, never commits, leaves no row in    *)
(* the database and its table gets no entry in generated_pks; the step that *)
(* inserts its first row ends the run with the unsupported-type error and   *)
(* leaves the database and the pools as they were, and the run that ends    *)
(* with this error has no transaction open and no row of the batch left.    *)
C19_UnsupportedPkTypeFails ==
    /\ []( /\ \A e \in Range(started) :
                 (UnsupportedPk(target_of(e)) /\ rows_of(e) >= 1) =>
                     /\ e \notin Range(committed) /\ RowsInDb(e) = {}
                     /\ target_of(e) \notin DOMAIN generated_pks
                     /\ generated_pks_for_this_table = <<>>
           /\ (result = "Custom" /\ error_arg = "unsupported pk type") =>
                 /\ pc = "done" /\ failed # "" /\ UnsupportedPk(target_of(failed))
                 /\ RowsInDb(failed) = {} /\ open_tx = {} /\ tx_rows = <<>> )
    /\ [][ ( /\ pc = "rows" /\ row_i < task.rows
             /\ UnsupportedPk(entity_template.target_table)
             /\ inserts' = inserts + 1 )
           => ( /\ pc' = "done" /\ result' = "Custom" /\ error_arg' = "unsupported pk type"
                /\ failed' = entity_name /\ open_tx' = {} /\ tx_rows' = <<>>
                /\ db' = db /\ generated_pks' = generated_pks ) ]_vars

(* C19's case: the run ended with the unsupported-type error after the row  *)
(* was inserted, and the rows of an earlier entity are still committed.     *)
C19_Witness ==
    /\ result = "Custom" /\ error_arg = "unsupported pk type"
    /\ inserts >= 2
    /\ UnsupportedPk(target_of(failed))
    /\ \E e \in Range(committed) : RowsInDb(e) # {}

(* C20: a request to the plan/pool source is sent only while no            *)
(* transaction has been begun or is open, in the plan and pool steps of the *)
(* run; from the first transaction on the number of requests sent stays     *)
(* what it was.                                                             *)
C20_RequestsBeforeTransactions ==
    /\ []( (tx_begun >= 1 \/ open_tx # {}) => pc \notin {"start", "pools"} )
    /\ [][ /\ requests' # requests =>
                /\ pc \in {"start", "pools"}
                /\ tx_begun = 0 /\ tx_begun' = 0
                /\ open_tx = {} /\ open_tx' = {}
                /\ db' = db /\ inserts = 0
           /\ tx_begun >= 1 => requests' = requests ]_vars

(* C20's case: the plan request, a pool request that failed and its retry   *)
(* were sent, and two entities have been seeded in transactions since.      *)
C20_Witness ==
    /\ requests >= 3
    /\ data_pools # EmptyMap
    /\ tx_begun >= 2
    /\ \E e \in Range(committed) : RowsInDb(e) # {}

(* The keys the database returned to the rows of the open batch, in the     *)
(* order of the inserts (none for a table without a primary key column).    *)
BatchKeys ==
    IF table_schema.primary_key_column = "" THEN <<>>
    ELSE [i \in 1..Len(tx_rows) |-> tx_rows[i].pk]

(* C21: while a batch is open, the pools handed to the generator for the    *)
(* next row hold, under the entity's own table, exactly the keys returned   *)
(* to the rows of the batch so far, in insertion order (none before the     *)
(* first row), and for every other table the entry run has accumulated,     *)
(* which no step of the batch changes.                                      *)
C21_OwnTableHoldsBatchKeys ==
    /\ []( pc = "rows" =>
             LET table == entity_template.target_table
                 pools == available_pks(generated_pks, table, generated_pks_for_this_table)
             IN /\ Len(tx_rows) = row_i
                /\ DOMAIN pools = DOMAIN generated_pks \cup {table}
                /\ table \in DOMAIN pools
                /\ pools[table] = BatchKeys
                /\ row_i = 0 => pools[table] = <<>>
                /\ \A t \in DOMAIN generated_pks \ {table} : pools[t] = generated_pks[t] )
    /\ [][ (pc = "rows" /\ pc' = "rows") => generated_pks' = generated_pks ]_vars

(* C21's case: the second row of a batch drew the key of the first row from *)
(* the entry of its own table, with the pool of an earlier entity present.  *)
C21_Witness ==
    /\ pc = "rows"
    /\ row_i = 2
    /\ generated_pks # EmptyMap
    /\ target_of(entity_name) \in DOMAIN entity
    /\ entity[target_of(entity_name)] = tx_rows[1].pk

(* The keys of the committed rows of an entity, in the order of the inserts. *)
KeysOf(e) ==
    LET t == target_of(e)
        rows == SelectSeq(db[t], LAMBDA r : r.batch = e)
    IN [i \in DOMAIN rows |-> rows[i].pk]

(* C22: when a run ends well for a plan that maps two entities to one table *)
(* of the schema with a task of at least one row, both entities have been   *)
(* seeded, and the entry of the table holds the keys of the one that was    *)
(* seeded second.                                                           *)
C22_BothEntitiesOfATableSeeded ==
    (pc = "done" /\ result = "Ok" /\ UniqueNames) =>
        \A i, j \in DOMAIN plan :
            ( /\ i < j
              /\ plan[i].target_table = plan[j].target_table
              /\ plan[i].target_table \in DOMAIN schema.tables
              /\ has_task(plan[i].target_table)
              /\ task_of(plan[i].target_table).rows >= 1 )
            => /\ plan[i].entity_name \in Range(committed)
               /\ plan[j].entity_name \in Range(committed)
               /\ LET last == IF Pos(committed, plan[i].entity_name)
                                    > Pos(committed, plan[j].entity_name)
                              THEN plan[i].entity_name ELSE plan[j].entity_name
                  IN ~NoPk(plan[i].target_table) =>
                        /\ plan[i].target_table \in DOMAIN generated_pks
                        /\ generated_pks[plan[i].target_table] = KeysOf(last)

(* How often a token occurs in a text.                                      *)
Count(str, tok) == Cardinality({k \in DOMAIN str : str[k] = tok})

(* The columns declared before field i of the call.                         *)
DeclaredBefore(fields, i) == {fields[j].column_name : j \in 1..(i - 1)}

(* A value of the row whose text holds a placeholder itself.                *)
HoldsPlaceholder(row) ==
    \E c \in DOMAIN row : \E k \in DOMAIN val_str(row[c]) : val_str(row[c])[k][1] = "key"

(* C23: in the row a call returns, the value of a template field still      *)
(* holds every placeholder of its format that names a column not declared   *)
(* before the field, a column declared after it included, although that     *)
(* column has its value in the row; and it holds no placeholder of a column *)
(* declared before it whose value has a text (when no value of the row      *)
(* brings a placeholder of its own).                                        *)
C23_TemplateSeesEarlierFieldsOnly ==
    (pc = "generated" /\ result = "Ok") =>
        \A i \in DOMAIN plan[1].fields :
            LET f == plan[1].fields[i]
            IN (f.generator = "template" /\ "format" \in DOMAIN f.params) =>
                  /\ f.column_name \in DOMAIN entity
                  /\ entity[f.column_name][1] = "template"
                  /\ \A k \in DOMAIN f.params["format"] :
                        LET tok == f.params["format"][k]
                        IN tok[1] = "key" =>
                              IF tok[2] \notin DeclaredBefore(plan[1].fields, i)
                              THEN Count(entity[f.column_name][2], tok)
                                      >= Count(f.params["format"], tok)
                              ELSE ( /\ tok[2] \in DOMAIN entity
                                     /\ ~val_str_is_empty(entity[tok[2]])
                                     /\ ~HoldsPlaceholder(entity) )
                                   => Count(entity[f.column_name][2], tok) = 0

(* C23's case: a template between two columns took the value of the first  *)
(* and kept the placeholder of the second, which has its value in the row.  *)
C23_Witness ==
    /\ pc = "generated" /\ result = "Ok"
    /\ Len(plan[1].fields) = 3
    /\ plan[1].fields[2].generator = "template"
    /\ "c3" \in DOMAIN entity
    /\ entity["c2"] = <<"template", << <<"hash", 20>>, <<"lit", "-">>, <<"key", "c3">> >> >>

(* The text of tokens that are literal text or placeholders.                *)
RECURSIVE render(_)
render(str) ==
    IF str = <<>> THEN ""
    ELSE (CASE str[1][1] = "lit" -> str[1][2]
            [] str[1][1] = "key" -> "{" \o str[1][2] \o "}"
            [] OTHER -> "?") \o render(Tail(str))

(* The text a string or a number is to be put in as: the string as it is,   *)
(* the empty one too, and the decimal text of the number.                   *)
Verbatim(v) ==
    CASE v[1] = "s" -> v[2]
      [] v[1] = "n" -> ToString(v[2])

(* The format with every placeholder of a string or number column of the    *)
(* row replaced by that text, all at once.                                  *)
RECURSIVE Substituted(_, _)
Substituted(format, row) ==
    IF format = <<>> THEN ""
    ELSE (IF /\ format[1][1] = "key"
             /\ format[1][2] \in DOMAIN row
             /\ row[format[1][2]][1] \in {"s", "n"}
          THEN Verbatim(row[format[1][2]])
          ELSE render(<<format[1]>>)) \o Substituted(Tail(format), row)

(* C24: the value of a template field behind a string column and a number   *)
(* column is its format with each of their placeholders replaced by the     *)
(* column's text, whatever the text and whatever order the columns are      *)
(* visited in.                                                              *)
C24_TemplateSubstitutesEveryValue ==
    ( /\ pc = "generated" /\ result = "Ok"
      /\ plan[1].fields[Len(plan[1].fields)].column_name = "t" )
    => render(entity["t"][2])
          = Substituted(plan[1].fields[Len(plan[1].fields)].params["format"],
                        [c \in DOMAIN entity \ {"t"} |-> entity[c]])

DayOf(str) == CHOOSE d \in DOMAIN Dates : Dates[d] = str

FirstSecond(str) == (DayOf(str) - 1) * SecondsPerDay

LastSecond(str) == DayOf(str) * SecondsPerDay - 1

(* C26: a call whose last field is a datetime_range field with a start and  *)
(* an end that are dates returns a row; when the start date is not before   *)
(* the end date, the same day included, the value is the first second of    *)
(* the start date, and else an instant from the first second of the start   *)
(* date to the last second of the end date.                                 *)
C26_DatetimeRange ==
    pc = "generated" =>
        LET f == plan[1].fields[Len(plan[1].fields)]
            start == param(f, "start", "2020-01-01")
            end == param(f, "end", "2024-01-01")
        IN (f.generator = "datetime_range" /\ {start, end} \subseteq Range(Dates)) =>
              /\ result = "Ok"
              /\ f.column_name \in DOMAIN entity
              /\ entity[f.column_name][1] = "date"
              /\ IF DayOf(start) >= DayOf(end)
                 THEN entity[f.column_name][2] = FirstSecond(start)
                 ELSE /\ FirstSecond(start) <= entity[f.column_name][2]
                      /\ entity[f.column_name][2] <= LastSecond(end)

(* C27: a call whose last field is a number_range field returns a row whose *)
(* value for the column is an integer from min to max (the defaults 0 and   *)
(* 100 where the plan gives none), whatever min and max are.                *)
C27_NumberRange ==
    pc = "generated" =>
        LET f == plan[1].fields[Len(plan[1].fields)]
            min == param(f, "min", 0)
            max == param(f, "max", 100)
        IN f.generator = "number_range" =>
              /\ result = "Ok"
              /\ f.column_name \in DOMAIN entity
              /\ entity[f.column_name][1] = "n"
              /\ min <= entity[f.column_name][2]
              /\ entity[f.column_name][2] <= max

(* The columns of an entity's table that are NOT NULL and that a field of   *)
(* the entity is to fill.                                                   *)
NotNullFields(e) ==
    {template_of(e).fields[i].column_name : i \in DOMAIN template_of(e).fields}
    \cap {c \in DOMAIN schema.tables[target_of(e)].columns :
             ~schema.tables[target_of(e)].columns[c].is_nullable}

(* C28: a row is inserted only with a value for every NOT NULL column its   *)
(* fields are to fill; a row for which a generator gave null for such a     *)
(* column is not among the rows of the transaction nor of the database.     *)
C28_NullForNotNullColumnFails ==
    (pc = "rows" /\ row_i >= 1) => NotNullFields(entity_name) \subseteq DOMAIN entity

(* The types of the integer arm of the binding.                             *)
IntegerTypes == {"integer", "bigint", "smallint", "int4"}

(* C29: the value bound for a column of an integer type is an i64 whatever  *)
(* the value of the row is: a number is bound as itself, true as 1, false   *)
(* as 0, a string that is a decimal numeral as its number, and every other  *)
(* string or value as 0.                                                    *)
C29_IntegerColumnsBindI64 ==
    ( /\ pc = "bound"
      /\ "c1" \in DOMAIN schema.tables["b"].columns
      /\ schema.tables["b"].columns["c1"].data_type \in IntegerTypes )
    => /\ DOMAIN query = DOMAIN entity
       /\ query["c1"][1] = "i64"
       /\ query["c1"][2] \in Int
       /\ entity["c1"][1] = "n" => query["c1"][2] = entity["c1"][2]
       /\ entity["c1"] = <<"b", TRUE>> => query["c1"][2] = 1
       /\ entity["c1"] = <<"b", FALSE>> => query["c1"][2] = 0
       /\ entity["c1"] = <<"s", "12">> => query["c1"][2] = 12
       /\ entity["c1"] = <<"s", "-7">> => query["c1"][2] = 0 - 7
       /\ entity["c1"] = <<"s", "+3">> => query["c1"][2] = 3
       /\ entity["c1"] = <<"s", "007">> => query["c1"][2] = 7
       /\ entity["c1"] = <<"s", "1">> => query["c1"][2] = 1
       /\ ( \/ entity["c1"][1] \notin {"n", "b", "s"}
            \/ /\ entity["c1"][1] = "s"
               /\ entity["c1"][2] \in {"x", "", "1.5", "true", "4 2"} )
          => query["c1"][2] = 0

(* C29's case: a string that is no numeral was bound as 0 for a smallint    *)
(* column.                                                                  *)
C29_Witness ==
    /\ pc = "bound"
    /\ "c1" \in DOMAIN schema.tables["b"].columns
    /\ schema.tables["b"].columns["c1"].data_type = "smallint"
    /\ entity["c1"] = <<"s", "1.5">>
    /\ query["c1"] = <<"i64", 0>>

(* C30: every entry of generated_pks holds at least one key, and so does    *)
(* every entry of another table in the pools handed to the generator; the   *)
(* table of an entity whose task asks for 0 rows has no entry once its      *)
(* batch has committed.                                                     *)
C30_NoEmptyPoolEntry ==
    /\ \A t \in DOMAIN generated_pks : generated_pks[t] # <<>>
    /\ pc = "rows" =>
          LET table == entity_template.target_table
              pools == available_pks(generated_pks, table, generated_pks_for_this_table)
          IN \A t \in DOMAIN pools \ {table} : pools[t] # <<>>
    /\ \A e \in Range(committed) : rows_of(e) = 0 => target_of(e) \notin DOMAIN generated_pks

(* C30's case: the batch of an entity with a task of 0 rows has committed   *)
(* and left no entry, while another entity has left one.                    *)
C30_Witness ==
    /\ generated_pks # EmptyMap
    /\ \E e \in Range(committed) :
          rows_of(e) = 0 /\ target_of(e) \notin DOMAIN generated_pks

----------------------------------------------------------------------------
(* The interactive table picker: run_interactive_mode                       *)
(* (src/src/interactive.rs) on the graph of                                 *)
(* Seeder::build_full_dependency_graph.  The user picks a table of the      *)
(* list, which selects or deselects it, answers whether the choice is       *)
(* complete, and at the end gives a row count for every selected table.     *)

(* config.default_rows.unwrap_or(10) of main.                               *)
default_rows == 10

(* Every table of the schema is a node; a foreign key between two tables    *)
(* of the schema is an edge parent -> child (to_table -> from_table).       *)
build_full_dependency_graph(s) ==
    [nodes |-> SelectSeq(TableSeq, LAMBDA t : t \in DOMAIN s.tables),
     edges |-> graph_edges([t \in DOMAIN s.tables |-> t], s.foreign_keys)]

(* DiGraphMap::neighbors_directed: the other ends of the edges that enter   *)
(* (Incoming) or leave (Outgoing) the node; an edge from a node to itself   *)
(* shows in both directions.                                                *)
neighbors_directed(g, n, dir) ==
    IF dir = "Incoming"
    THEN LET es == SelectSeq(g.edges, LAMBDA e : e[2] = n) IN [i \in DOMAIN es |-> es[i][1]]
    ELSE LET es == SelectSeq(g.edges, LAMBDA e : e[1] = n) IN [i \in DOMAIN es |-> es[i][2]]

(* petgraph::algo::has_path_connecting: a depth-first search from `from`    *)
(* along the edges, which visits `from` itself first.                       *)
RECURSIVE dfs_visit(_, _, _)
dfs_visit(g, stack, discovered) ==
    IF stack = <<>> THEN discovered
    ELSE LET node == stack[Len(stack)]
             rest == SubSeq(stack, 1, Len(stack) - 1)
         IN IF node \in discovered
            THEN dfs_visit(g, rest, discovered)
            ELSE dfs_visit(g, rest \o neighbors_directed(g, node, "Outgoing"),
                           discovered \cup {node})

has_path_connecting(g, from, to) == to \in dfs_visit(g, <<from>>, {})

is_dependency_for_others_never(g, sel, t) == FALSE

(* The table is selected already: is another selected table reachable      *)
(* from it?                                                                 *)
is_dependency_for_others(g, sel, t) ==
    \E other_table \in sel : other_table # t /\ has_path_connecting(g, t, other_table)

(* The table is not selected: the loop over to_visit, which selects the     *)
(* parents of every table it pops and pushes them.                          *)
RECURSIVE visit_parents(_, _, _, _)
visit_parents(g, to_visit, visited, sel) ==
    IF to_visit = <<>> THEN sel
    ELSE LET current == to_visit[Len(to_visit)]
             rest == SubSeq(to_visit, 1, Len(to_visit) - 1)
         IN IF current \in visited
            THEN visit_parents(g, rest, visited, sel)
            ELSE LET parents == neighbors_directed(g, current, "Incoming")
                 IN visit_parents(g, rest \o parents, visited \cup {current},
                                  sel \cup Range(parents))

(* The if of the loop body: deselect unless refused, or select with the     *)
(* ancestors.                                                               *)
toggle(g, sel, t) ==
    IF t \in sel
    THEN IF is_dependency_for_others(g, sel, t) THEN sel ELSE sel \ {t}
    ELSE visit_parents(g, <<t>>, {}, sel \cup {t})

(* table_names: the keys of schema.tables, sorted.                          *)
table_names(s) == SelectSeq(TableSeq, LAMBDA t : t \in DOMAIN s.tables)

(* str::parse::<u32>: decimal digits with an optional plus sign.            *)
parse_u32(str) ==
    IF \E n \in 0..50 : str \in decimal_texts(n)
    THEN <<"Ok", CHOOSE n \in 0..50 : str \in decimal_texts(n)>>
    ELSE <<"Err">>

(* What the user may type for a row count.                                  *)
RowInputs == {"2", "-1", "x"}

(* The foreign keys the schema of the picker may hold: those of the run,    *)
(* a second table that references itself, and two that touch a table the    *)
(* schema does not hold.                                                    *)
PickerForeignKeys ==
    CandidateForeignKeys \o
    << [from_table |-> "c", to_table |-> "c"],
       [from_table |-> "a", to_table |-> GhostTable],
       [from_table |-> GhostTable, to_table |-> "b"] >>

PickInit ==
    /\ \E S \in SUBSET (DOMAIN PickerForeignKeys) :
          schema = [tables |-> MakeTables(NoTable, "none", "id", "nullable"),
                    foreign_keys |-> PickSeq(PickerForeignKeys, S, 1)]
    /\ plan = <<>>
    /\ plan_data_pools = {}
    /\ plan_tasks = <<>>
    /\ pc = "pick"
    /\ result = "none"
    /\ error_arg = ""
    /\ requests = 0
    /\ attempt = 0
    /\ data_pools = EmptyMap
    /\ sorted_entities = <<>>
    /\ idx = 0
    /\ generated_pks = EmptyMap
    /\ open_tx = {}
    /\ tx_rows = <<>>
    /\ entity = <<>>
    /\ generated_pks_for_this_table = <<>>
    /\ row_i = 0
    /\ db = [t \in Tables |-> <<>>]
    /\ issued = <<>>
    /\ started = <<>>
    /\ committed = <<>>
    /\ skipped = <<>>
    /\ failed = ""
    /\ tx_begun = 0
    /\ inserts = 0
    /\ query = <<>>
    /\ selections = {}
    /\ selected_table = NoTable

PickUnchanged ==
    UNCHANGED <<schema, plan, plan_data_pools, error_arg, requests, attempt, data_pools,
                sorted_entities, idx, generated_pks, open_tx, tx_rows, entity,
                generated_pks_for_this_table, row_i, db, issued, started, committed,
                skipped, failed, tx_begun, inserts, query>>

(* One pass of the loop up to the question: the user picks a table, or      *)
(* leaves the list with Esc, or the terminal fails.                         *)
PickTable ==
    /\ pc = "pick"
    /\ \/ \E selection \in DOMAIN table_names(schema) :
             /\ selected_table' = table_names(schema)[selection]
             /\ selections' = toggle(build_full_dependency_graph(schema), selections,
                                     table_names(schema)[selection])
             /\ pc' = "confirm"
             /\ UNCHANGED result
       \/ /\ \E err \in {"Interrupted", "Dialoguer"} : result' = err
          /\ pc' = "done"
          /\ UNCHANGED <<selections, selected_table>>
    /\ UNCHANGED plan_tasks
    /\ PickUnchanged

(* The question that ends the loop: no goes back to the list, yes leaves    *)
(* it, and with nothing selected the function returns an empty plan.        *)
Confirm ==
    /\ pc = "confirm"
    /\ \/ pc' = "pick" /\ UNCHANGED <<result, plan_tasks>>
       \/ /\ selections = {}
          /\ pc' = "done" /\ result' = "Ok" /\ plan_tasks' = <<>>
       \/ /\ selections # {}
          /\ pc' = "rows" /\ UNCHANGED <<result, plan_tasks>>
       \/ pc' = "done" /\ result' = "Dialoguer" /\ UNCHANGED plan_tasks
    /\ UNCHANGED <<selections, selected_table>>
    /\ PickUnchanged

(* The loop over the sorted selections: a row count is asked for each, and  *)
(* a text that does not parse gives default_rows.                           *)
AskRows ==
    /\ pc = "rows"
    /\ \/ \E rows_str \in [selections -> RowInputs] :
             LET sorted_selections == SelectSeq(TableSeq, LAMBDA t : t \in selections)
             IN plan_tasks' = [i \in DOMAIN sorted_selections |->
                                  [table |-> sorted_selections[i],
                                   rows |-> unwrap_or(parse_u32(rows_str[sorted_selections[i]]),
                                                      default_rows)]]
          /\ result' = "Ok"
       \/ result' = "Dialoguer" /\ UNCHANGED plan_tasks
    /\ pc' = "done"
    /\ UNCHANGED <<selections, selected_table>>
    /\ PickUnchanged

PickNext == PickTable \/ Confirm \/ AskRows

PickSpec == PickInit /\ [][PickNext]_vars

(* A table depends on another through foreign keys: a chain of foreign      *)
(* keys between tables of the schema leads from the one to the other.       *)
References(child, parent) ==
    /\ child \in DOMAIN schema.tables
    /\ parent \in DOMAIN schema.tables
    /\ \E i \in DOMAIN schema.foreign_keys :
          /\ schema.foreign_keys[i].from_table = child
          /\ schema.foreign_keys[i].to_table = parent

DependsOn(child, ancestor) ==
    \E n \in 1..Cardinality(DOMAIN schema.tables) :
       \E chain \in [1..(n + 1) -> DOMAIN schema.tables] :
          /\ chain[1] = child
          /\ chain[n + 1] = ancestor
          /\ \A i \in 1..n : References(chain[i], chain[i + 1])

AncestorsOf(t) == {s \in DOMAIN schema.tables : DependsOn(t, s)}

(* C31: in the table picker the selected tables are always closed under     *)
(* parents (with a selected table, every table it depends on through a      *)
(* chain of foreign keys is selected); picking an unselected table selects  *)
(* it and all its ancestors and nothing else; picking a selected table      *)
(* from which another selected table is reachable changes nothing, and      *)
(* otherwise removes that table only.                                       *)
C31_ClosedUnderParents ==
    /\ [](\A t \in selections : AncestorsOf(t) \subseteq selections)
    /\ [][(pc = "pick" /\ pc' = "confirm") =>
             LET t == selected_table'
             IN IF t \notin selections
                THEN selections' = selections \cup {t} \cup AncestorsOf(t)
                ELSE IF \E other \in selections : other # t /\ DependsOn(other, t)
                     THEN selections' = selections
                     ELSE selections' = selections \ {t}]_vars

(* The picker stands after a refused deselection: "a" was picked while     *)
(* selected, and "c", which reaches "a" only through "b", is selected; no  *)
(* cycle runs through "a", so "c" and "b" were selected before this pick.  *)
C31_Witness ==
    /\ pc = "confirm"
    /\ selected_table = "a"
    /\ selections = {"a", "b", "c"}
    /\ References("c", "b") /\ References("b", "a") /\ ~References("c", "a")
    /\ AncestorsOf("a") = {}

----------------------------------------------------------------------------
(* The run with the scheduling of get_pool_data: every attempt is awaited   *)
(* (the request, and after a failure the sleep of two seconds), so an       *)
(* attempt that can be made is made.                                        *)
FairSpec == Spec /\ WF_vars(RequestPool)

(* C32: get_pool_data sends at most 3 requests for one pool.  Every step    *)
(* of the pool loop is one attempt with one request, made after fewer than  *)
(* 3 failed attempts for the pool at hand; an attempt that succeeds returns *)
(* its non-empty list as the data of a pool not filled before and ends the  *)
(* call, and the data of a filled pool never changes, so no request         *)
(* follows for it; an attempt that fails is followed by another one unless  *)
(* it is the third in a row, which returns the error; and every call        *)
(* terminates: the pool is filled or the run has ended with the error.      *)
C32_AtMostThreeRequests ==
    /\ [](pc = "pools" => attempt < 3)
    /\ [][pc = "pools" =>
             /\ requests' = requests + 1
             /\ \/ /\ \E p \in plan_data_pools \ DOMAIN data_pools :
                         /\ DOMAIN data_pools' = DOMAIN data_pools \cup {p}
                         /\ data_pools'[p] # <<>>
                   /\ attempt' = 0
                   /\ result' = "none"
                \/ /\ attempt + 1 < 3
                   /\ attempt' = attempt + 1
                   /\ data_pools' = data_pools
                   /\ pc' = "pools"
                \/ /\ attempt + 1 = 3
                   /\ data_pools' = data_pools
                   /\ pc' = "done" /\ result' = "Custom" /\ error_arg' = "pool"]_vars
    /\ [][\A p \in DOMAIN data_pools :
             p \in DOMAIN data_pools' /\ data_pools'[p] = data_pools[p]]_vars
    /\ \A k \in 0..Cardinality(UNION PoolSets) :
          (pc = "pools" /\ Cardinality(DOMAIN data_pools) = k)
              ~> (pc # "pools" \/ Cardinality(DOMAIN data_pools) > k)


(* Both outcomes of a call in one run: the first pool was filled by the    *)
(* third attempt, the second pool failed three times, and the run ended    *)
(* with the error after seven requests (the plan's and twice three).       *)
C32_Witness ==
    /\ pc = "done" /\ result = "Custom" /\ error_arg = "pool"
    /\ Cardinality(plan_data_pools) = 2
    /\ Cardinality(DOMAIN data_pools) = 1
    /\ requests = 7

=============================================================================
